---------------------------- MODULE Spec2Model ----------------------------
(***************************************************************************)
(* A model of pspace (src/__init__.py): the configuration parser           *)
(* parse_conf, the parameter-space expansion compute_psets and the         *)
(* subspace filter filter_psets.                                           *)
(*                                                                         *)
(* Text is modelled as sequences of one-character strings, so that the     *)
(* str methods the code uses (strip, split, count, replace) and the        *)
(* conversions float() and str() are computed, not assumed.  A float is    *)
(* modelled as an integer number of thousandths (Scale); the literals of   *)
(* the model are unsigned decimals with at most three fraction digits.     *)
(* Python's None is the empty sequence None and a present value v is       *)
(* <<v>>.  A dict is a sequence of entries in insertion order.             *)
(***************************************************************************)
EXTENDS Integers, Sequences, FiniteSets, TLC

\* ------------------------------------------------------------------------
\* Bounds of the model
\* ------------------------------------------------------------------------

\* largest number of NAME=VALUE pairs in a --param option string
MaxPairs == 2

\* thousandths: the fixed-point resolution of a modelled float
Scale == 10 * 10 * 10

\* ------------------------------------------------------------------------
\* Python str methods on sequences of characters.  An operator that needs an
\* intermediate value several times takes it as a parameter of a second
\* operator (XxxAt, XxxOf), so that it is computed once.
\* ------------------------------------------------------------------------

IsSpace(c) == c \in {" ", "\t", "\n"}

RECURSIVE LStrip(_)
LStrip(s) == IF s # <<>> /\ IsSpace(Head(s)) THEN LStrip(Tail(s)) ELSE s

RECURSIVE RStrip(_)
RStrip(s) ==
    IF s # <<>> /\ IsSpace(s[Len(s)]) THEN RStrip(SubSeq(s, 1, Len(s) - 1)) ELSE s

\* s.strip()
Strip(s) == RStrip(LStrip(s))

\* s.count(c)
Count(s, c) == Cardinality({i \in 1..Len(s) : s[i] = c})

\* index of the first c in s, 0 when there is none
Find(s, c) ==
    IF \E i \in 1..Len(s) : s[i] = c
    THEN CHOOSE i \in 1..Len(s) : s[i] = c /\ \A j \in 1..(i - 1) : s[j] # c
    ELSE 0

\* s.split(c): split at every c
RECURSIVE Split(_, _)
Split(s, c) ==
    LET SplitAt(i) ==
            IF i = 0 THEN <<s>>
            ELSE <<SubSeq(s, 1, i - 1)>> \o Split(SubSeq(s, i + 1, Len(s)), c)
    IN  SplitAt(Find(s, c))

\* s.split(c, 1): split at the first c only
Split1(s, c) ==
    LET SplitAt(i) ==
            IF i = 0 THEN <<s>> ELSE <<SubSeq(s, 1, i - 1), SubSeq(s, i + 1, Len(s))>>
    IN  SplitAt(Find(s, c))

\* index of the first whitespace character of s, 0 when there is none
FindSpace(s) ==
    IF \E i \in 1..Len(s) : IsSpace(s[i])
    THEN CHOOSE i \in 1..Len(s) : IsSpace(s[i]) /\ \A j \in 1..(i - 1) : ~IsSpace(s[j])
    ELSE 0

\* s.split(None, n): at most n splits at runs of whitespace, no empty words
RECURSIVE SplitWs(_, _)
SplitWs(s, n) ==
    LET SplitAt(t, i) ==
            IF t = <<>> THEN <<>>
            ELSE IF n = 0 THEN <<RStrip(t)>>
            ELSE IF i = 0 THEN <<t>>
            ELSE <<SubSeq(t, 1, i - 1)>> \o SplitWs(SubSeq(t, i + 1, Len(t)), n - 1)
        SplitOf(t) == SplitAt(t, FindSpace(t))
    IN  SplitOf(LStrip(s))

\* s.split(): any number of splits
SplitAll(s) == SplitWs(s, Len(s))

\* s.replace(a, b) for single characters
Replace(s, a, b) == [i \in 1..Len(s) |-> IF s[i] = a THEN b ELSE s[i]]

\* s.startswith(p), s.endswith(p)
StartsWith(s, p) == Len(s) >= Len(p) /\ SubSeq(s, 1, Len(p)) = p

EndsWith(s, p) == Len(s) >= Len(p) /\ SubSeq(s, Len(s) - Len(p) + 1, Len(s)) = p

\* x in list
InSeq(x, s) == \E i \in 1..Len(s) : s[i] = x

RECURSIVE Join(_, _)
Join(ss, sep) ==
    IF ss = <<>> THEN <<>>
    ELSE IF Len(ss) = 1 THEN ss[1]
    ELSE ss[1] \o sep \o Join(Tail(ss), sep)

\* ------------------------------------------------------------------------
\* float() and str()
\* ------------------------------------------------------------------------

None == <<>>
Some(v) == <<v>>

DigitChars == <<"0", "1", "2", "3", "4", "5", "6", "7", "8", "9">>

IsDigit(c) == InSeq(c, DigitChars)

AllDigits(s) == \A i \in 1..Len(s) : IsDigit(s[i])

DigitVal(c) == (CHOOSE i \in 1..Len(DigitChars) : DigitChars[i] = c) - 1

RECURSIVE DigitsVal(_)
DigitsVal(s) ==
    IF s = <<>> THEN 0 ELSE DigitsVal(SubSeq(s, 1, Len(s) - 1)) * 10 + DigitVal(s[Len(s)])

\* the fraction digits as thousandths
FracVal(s) ==
    LET FracDigit(i) == IF i <= Len(s) THEN DigitVal(s[i]) ELSE 0
    IN  FracDigit(1) * 100 + FracDigit(2) * 10 + FracDigit(3)

\* float(s): surrounding whitespace is ignored; [ok |-> FALSE] is ValueError
PyFloat(s) ==
    LET Digits(n, ip, fp) ==
            IF n <= 2 /\ AllDigits(ip) /\ AllDigits(fp) /\ Len(ip) + Len(fp) > 0
            THEN [ok |-> TRUE, v |-> DigitsVal(ip) * Scale + FracVal(fp)]
            ELSE [ok |-> FALSE, v |-> 0]
        Parts(parts) == Digits(Len(parts), parts[1], IF Len(parts) = 2 THEN parts[2] ELSE <<>>)
    IN  Parts(Split(Strip(s), "."))

RECURSIVE NatStr(_)
NatStr(n) ==
    IF n < 10 THEN <<DigitChars[n + 1]>>
    ELSE NatStr(n \div 10) \o <<DigitChars[(n % 10) + 1]>>

RECURSIVE StripZeros(_)
StripZeros(s) ==
    IF Len(s) > 1 /\ s[Len(s)] = "0" THEN StripZeros(SubSeq(s, 1, Len(s) - 1)) ELSE s

\* str(x) of a float: the shortest decimal, always with a fraction digit
PyStr(v) ==
    LET FracStr(f) ==
            <<DigitChars[(f \div 100) + 1], DigitChars[((f \div 10) % 10) + 1],
              DigitChars[(f % 10) + 1]>>
    IN  NatStr(v \div Scale) \o <<".">> \o StripZeros(FracStr(v % Scale))

\* ------------------------------------------------------------------------
\* filter_psets
\* ------------------------------------------------------------------------

\* key in dict, the position of key and dict[key], for a dict kept as a
\* sequence of entries [key |-> ..., ...]
HasKey(d, k) == \E i \in 1..Len(d) : d[i].key = k

KeyIndex(d, k) == CHOOSE i \in 1..Len(d) : d[i].key = k

Lookup(d, k) == d[KeyIndex(d, k)]

\* lines 1496-1540, the body of the loop over the pairs: the filterparams
\* after this pair, or SystemExit
FilterPair(fp, pair, pnames) ==
    LET Exit == [status |-> "SystemExit", fp |-> <<>>]
        \* lines 1522-1534: val1 and val2 stripped, f1 and f2 their floats
        Interval(key, val1, val2, f1, f2) ==
            IF val1 # <<>> /\ ~f1.ok THEN Exit
            ELSE IF val2 # <<>> /\ ~f2.ok THEN Exit
            ELSE [status |-> "ok",
                  fp |-> Append(fp, [key |-> key, tuple |-> TRUE,
                                     val1 |-> IF val1 # <<>> THEN Some(f1.v) ELSE None,
                                     val2 |-> IF val2 # <<>> THEN Some(f2.v) ELSE None])]
        IntervalOf(key, val1, val2) == Interval(key, val1, val2, PyFloat(val1), PyFloat(val2))
        \* lines 1536-1540: f the float of the value
        Single(key, f) ==
            IF ~f.ok THEN Exit
            ELSE [status |-> "ok",
                  fp |-> Append(fp, [key |-> key, tuple |-> FALSE,
                                     val1 |-> Some(f.v), val2 |-> None])]
        \* lines 1507-1540: key and value stripped, colons the number of ":"
        KeyValue(key, value, colons) ==
            IF HasKey(fp, key) THEN Exit
            ELSE IF pnames # <<>> /\ ~InSeq(key, pnames) THEN Exit
            ELSE IF colons > 1 THEN Exit
            ELSE IF colons = 1
            THEN IntervalOf(key, Strip(SubSeq(value, 1, Find(value, ":") - 1)),
                            Strip(SubSeq(value, Find(value, ":") + 1, Len(value))))
            ELSE Single(key, PyFloat(value))
        KeyValueOf(key, value) == KeyValue(key, value, Count(value, ":"))
        \* lines 1499-1505: kv is pair.strip().split('=')
        Unpack(kv) == IF Len(kv) # 2 THEN Exit ELSE KeyValueOf(Strip(kv[1]), Strip(kv[2]))
    IN  IF pair = <<>> THEN [status |-> "ok", fp |-> fp] ELSE Unpack(Split(pair, "="))

\* the loop over the pairs, from pair i on (line 1495)
RECURSIVE FilterParse(_, _, _, _)
FilterParse(pairs, i, fp, pnames) ==
    LET Next(r) == IF r.status = "ok" THEN FilterParse(pairs, i + 1, r.fp, pnames) ELSE r
    IN  IF i > Len(pairs) THEN [status |-> "ok", fp |-> fp]
        ELSE Next(FilterPair(fp, Strip(pairs[i]), pnames))

\* x <= bound and x >= bound for a bound that may be None (TypeError)
PyLE(x, bound) ==
    IF bound = None THEN "TypeError" ELSE IF x <= bound[1] THEN "True" ELSE "False"

PyGE(x, bound) ==
    IF bound = None THEN "TypeError" ELSE IF x >= bound[1] THEN "True" ELSE "False"

\* a and b, with b evaluated only when a is true
PyAnd(a, b) == IF a = "True" THEN b ELSE a

\* lines 1557-1565, the chain of tests of an interval (val1, val2) that is
\* not (None, None) on the value x: "True" (continue), "False" (skip) or the
\* exception raised
IntervalTest(x, val1, val2) ==
    IF val1 = None /\ PyLE(x, val2) = "True" THEN "True"
    ELSE IF val2 = None /\ PyGE(x, val1) = "True" THEN "True"
    ELSE PyAnd(PyGE(x, val1), PyLE(x, val2))

\* FilterTest with the test of a single number inverted
FilterTestInverted(pset, p) ==
    IF p.tuple THEN "continue"
    ELSE IF p.key \notin DOMAIN pset THEN "KeyError"
    ELSE IF PyStr(pset[p.key]) = PyStr(p.val1[1]) THEN "skip" ELSE "continue"

\* lines 1552-1570, the test of one filter parameter on one parameter set:
\* "continue" (it passes), "skip", or the exception raised
FilterTest(pset, p) ==
    LET Verdict(t) == IF t = "True" THEN "continue" ELSE IF t = "False" THEN "skip" ELSE t
    IN  IF p.tuple
        THEN IF p.val1 = None /\ p.val2 = None THEN "continue"
             ELSE IF p.key \notin DOMAIN pset THEN "KeyError"
             ELSE Verdict(IntervalTest(pset[p.key], p.val1, p.val2))
        ELSE IF p.key \notin DOMAIN pset THEN "KeyError"
        ELSE IF PyStr(pset[p.key]) # PyStr(p.val1[1]) THEN "skip" ELSE "continue"

\* the loop over the filter parameters for one parameter set, from i on
\* (line 1551)
RECURSIVE FilterPset(_, _, _)
FilterPset(pset, fp, i) ==
    LET Next(t) == IF t = "continue" THEN FilterPset(pset, fp, i + 1) ELSE t
    IN  IF i > Len(fp) THEN "keep" ELSE Next(FilterTest(pset, fp[i]))

\* the loop over the parameter sets, from entry i on (lines 1546-1576)
RECURSIVE FilterLoop(_, _, _, _)
FilterLoop(psets, fp, i, new) ==
    LET Next(t) ==
            IF t = "keep" THEN FilterLoop(psets, fp, i + 1, Append(new, psets[i]))
            ELSE IF t = "skip" THEN FilterLoop(psets, fp, i + 1, new)
            ELSE [status |-> t, psets |-> <<>>]
    IN  IF i > Len(psets) THEN [status |-> "returned", psets |-> new]
        ELSE Next(FilterPset(psets[i].pset, fp, 1))

\* filter_psets(psets, opts_param, pnames): [status |-> "returned", psets]
\* or the way the call fails
filter_psets(psets, opts_param, pnames) ==
    LET Parsed(parsed) ==
            IF parsed.status # "ok" THEN [status |-> parsed.status, psets |-> <<>>]
            ELSE FilterLoop(psets, parsed.fp, 1, <<>>)
    IN  Parsed(FilterParse(Split(Strip(opts_param), ","), 1, <<>>, pnames))

\* ------------------------------------------------------------------------
\* compare, name_datafile and compute_psets
\* ------------------------------------------------------------------------

Operators == {"<", ">", "<=", ">=", "==", "!="}

\* compare with its two values exchanged
compareSwapped(val1, val2, op) ==
    IF op = "<" THEN val2 < val1
    ELSE IF op = ">" THEN val2 > val1
    ELSE IF op = "<=" THEN val2 <= val1
    ELSE IF op = ">=" THEN val2 >= val1
    ELSE IF op = "==" THEN val2 = val1
    ELSE val2 # val1

\* compare(val1, val2, op) for one of the six operators (any other operator
\* ends the process, and parse_conf admits no other)
compare(val1, val2, op) ==
    IF op = "<" THEN val1 < val2
    ELSE IF op = ">" THEN val1 > val2
    ELSE IF op = "<=" THEN val1 <= val2
    ELSE IF op = ">=" THEN val1 >= val2
    ELSE IF op = "==" THEN val1 = val2
    ELSE val1 # val2

\* eval(expr, pset.copy()) for the expressions of the model: a parameter
\* name, a number, or a sum of two of these; an unknown name is NameError
EvalTerm(t, pset) ==
    IF t \in DOMAIN pset THEN [ok |-> TRUE, v |-> pset[t]] ELSE PyFloat(t)

PyEval(expr, pset) ==
    LET Sum(a, b) == [ok |-> a.ok /\ b.ok, v |-> a.v + b.v]
        At(i) ==
            IF i = 0 THEN EvalTerm(expr, pset)
            ELSE Sum(EvalTerm(SubSeq(expr, 1, i - 1), pset),
                     EvalTerm(SubSeq(expr, i + 1, Len(expr)), pset))
    IN  At(Find(expr, "+"))

\* round(x): to the nearest integer, a tie to the even one
PyRound(v) ==
    LET Round(q, r) ==
            IF 2 * r < Scale THEN q
            ELSE IF 2 * r > Scale THEN q + 1
            ELSE IF q % 2 = 0 THEN q ELSE q + 1
    IN  Round(v \div Scale, v % Scale)

\* template % tuple(values) for a template whose conversions are %d: the
\* number of conversions must be the number of values (else TypeError)
RECURSIVE FormatParts(_, _)
FormatParts(parts, values) ==
    IF parts = <<>> THEN <<>>
    ELSE NatStr(values[1]) \o Tail(parts[1]) \o FormatParts(Tail(parts), Tail(values))

PyFormat(template, values) ==
    LET Parts(parts) ==
            IF Len(parts) - 1 # Len(values) THEN [ok |-> FALSE, s |-> <<>>]
            ELSE [ok |-> TRUE, s |-> parts[1] \o FormatParts(Tail(parts), values)]
    IN  Parts(Split(template, "%"))

Suffix == <<".", "h", "5">>

\* name_datafile(conf, pset): the rendered name, or the exception raised
name_datafile(conf, pset) ==
    LET \* line 1806, f the formatted template
        Formatted(f) ==
            IF ~f.ok THEN [status |-> "TypeError", s |-> <<>>]
            ELSE [status |-> "ok", s |-> f.s \o Suffix]
        \* lines 1803-1805, ev the evaluated expressions
        Evaluated(ev) ==
            IF \E i \in 1..Len(ev) : ~ev[i].ok THEN [status |-> "NameError", s |-> <<>>]
            ELSE Formatted(PyFormat(conf.DATAFILE, [i \in 1..Len(ev) |-> PyRound(ev[i].v)]))
    IN  Evaluated([i \in 1..Len(conf.DATAFILE_VALUES) |->
                      PyEval(conf.DATAFILE_VALUES[i], pset)])

\* the user's home directory
Home == <<"/", "h">>

\* os.path.expanduser for the current user
Expanduser(path) ==
    IF path = <<"~">> \/ StartsWith(path, <<"~", "/">>) THEN Home \o Tail(path) ELSE path

\* os.path.abspath(os.path.join(workdir, datafile)) for an absolute workdir
AbsJoin(workdir, datafile) ==
    IF StartsWith(datafile, <<"/">>) THEN datafile ELSE workdir \o <<"/">> \o datafile

\* the number of combinations of the lists from list i on
RECURSIVE ProductLen(_, _)
ProductLen(lists, i) ==
    IF i > Len(lists) THEN 1 ELSE Len(lists[i]) * ProductLen(lists, i + 1)

\* itertools.product(*lists): the last list varies fastest
Product(lists) ==
    [k \in 1..ProductLen(lists, 1) |->
        [i \in 1..Len(lists) |->
            lists[i][(((k - 1) \div ProductLen(lists, i + 1)) % Len(lists[i])) + 1]]]

\* the value lists of a block in the order of pnames (lines 1766-1767)
BlockLists(conf, pspace) == [i \in 1..Len(conf.pnames) |-> pspace.values[conf.pnames[i]]]

nACC == <<"A", "C", "C">>

\* the parameter set built for one combination of a block (lines 1768-1785)
NewEntry(conf, pspace, pcomb) ==
    LET \* lines 1772-1785, datafile the expanded name
        At(params, file, datafile) ==
            [status |-> file.status,
             entry |-> [key |-> datafile,
                        pset |-> [n \in DOMAIN params \cup {nACC} |->
                                     IF n = nACC THEN pspace.acc ELSE params[n]],
                        FILE |-> file.s,
                        ABSPATH |-> AbsJoin(conf.WORKDIR, datafile)]]
        Named(params, file) == At(params, file, Expanduser(file.s))
        Of(params) == Named(params, name_datafile(conf, params))
    IN  \* lines 1768-1770: dict(zip(pnames, pcomb))
        Of([n \in {conf.pnames[i] : i \in 1..Len(pcomb)} |->
               pcomb[CHOOSE i \in 1..Len(pcomb) : conf.pnames[i] = n]])

\* Collide without the test for a key that is in the mapping already
CollideAppend(psets, new, op) == Append(psets, new)

\* Collide with the entry that came first always kept
CollideKeep(psets, new, op) == IF HasKey(psets, new.key) THEN psets ELSE Append(psets, new)

\* lines 1789-1793: the mapping after the new entry
Collide(psets, new, op) ==
    IF HasKey(psets, new.key)
    THEN IF compare(Lookup(psets, new.key).pset[nACC], new.pset[nACC], op)
         THEN psets
         ELSE [psets EXCEPT ![KeyIndex(psets, new.key)] = new]
    ELSE Append(psets, new)

\* ------------------------------------------------------------------------
\* parse_conf: the words of a line
\* ------------------------------------------------------------------------

\* int(s) for the literals of the model: decimal digits with an optional sign
PyInt(s) ==
    LET Digits(sign, digits) ==
            IF digits # <<>> /\ AllDigits(digits)
            THEN [ok |-> TRUE, v |-> sign * DigitsVal(digits)]
            ELSE [ok |-> FALSE, v |-> 0]
        Signed(t) ==
            IF t # <<>> /\ t[1] = "-" THEN Digits(-1, Tail(t))
            ELSE IF t # <<>> /\ t[1] = "+" THEN Digits(1, Tail(t))
            ELSE Digits(1, t)
    IN  Signed(Strip(s))

\* the working directory of the process
Cwd == <<"/", "c">>

\* os.path.abspath for the paths of the model (nothing to normalise)
Abspath(path) == IF StartsWith(path, <<"/">>) THEN path ELSE Cwd \o <<"/">> \o path

\* what a line asks for: kind is the directive (or the exception the words
\* raise), key the field of conf, text, list and num its operand
Directive(kind, key, text, list, num) ==
    [kind |-> kind, key |-> key, text |-> text, list |-> list, num |-> num]

Bare(kind) == Directive(kind, "", <<>>, <<>>, 0)

\* the keywords with a text operand and those with a list operand
TemplateWords ==
    << [word |-> <<"D", "A", "T", "A", "F", "I", "L", "E">>, key |-> "DATAFILE"],
       [word |-> <<"C", "M", "D", "_", "E", "X", "E", "C">>, key |-> "CMD_EXEC"],
       [word |-> <<"C", "M", "D", "_", "F", "I", "L", "E">>, key |-> "CMD_FILE"],
       [word |-> <<"C", "M", "D", "_", "C", "H", "E", "C", "K", "F", "I", "L", "E">>, key |-> "CMD_CHECKFILE"],
       [word |-> <<"C", "M", "D", "_", "A", "C", "C">>, key |-> "CMD_ACC"] >>

ValuesWords ==
    << [word |-> <<"D", "A", "T", "A", "F", "I", "L", "E", "_", "V", "A", "L", "U", "E", "S">>, key |-> "DATAFILE_VALUES"],
       [word |-> <<"C", "M", "D", "_", "E", "X", "E", "C", "_", "V", "A", "L", "U", "E", "S">>, key |-> "CMD_EXEC_VALUES"],
       [word |-> <<"C", "M", "D", "_", "F", "I", "L", "E", "_", "V", "A", "L", "U", "E", "S">>, key |-> "CMD_FILE_VALUES"],
       [word |-> <<"C", "M", "D", "_", "C", "H", "E", "C", "K", "F", "I", "L", "E", "_", "V", "A", "L", "U", "E", "S">>, key |-> "CMD_CHECKFILE_VALUES"],
       [word |-> <<"C", "M", "D", "_", "A", "C", "C", "_", "V", "A", "L", "U", "E", "S">>, key |-> "CMD_ACC_VALUES"] >>

IsWord(table, w) == \E i \in 1..Len(table) : table[i].word = w

KeyOf(table, w) == table[CHOOSE i \in 1..Len(table) : table[i].word = w].key

\* line.strip().split(None, 1)[0]
FirstWord(line) == SplitWs(Strip(line), 1)[1]

\* keyword, text = line.strip().split(None, 1): ValueError without a text
TextOperand(kind, key, parts) ==
    IF Len(parts) # 2 THEN Bare("ValueError")
    ELSE Directive(kind, key, parts[2], <<>>, 0)

\* keyword, values = line.replace(',', ' ').strip().split(None, 1), and
\* values.split()
ListOperand(key, parts) ==
    IF Len(parts) # 2 THEN Bare("ValueError")
    ELSE Directive("VALUES", key, <<>>, SplitAll(parts[2]), 0)

\* lines 1927-1931: _, number = line.strip().split(); int(number)
MaxrunOperand(words) ==
    LET Number(n) ==
            IF ~n.ok THEN Bare("SyntaxError")
            ELSE Directive("MAXRUN", "MAXRUN", <<>>, <<>>, n.v)
    IN  IF Len(words) # 2 THEN Bare("SyntaxError") ELSE Number(PyInt(words[2]))

\* lines 1911-2101: the directive of a top-level line (annotation cut off)
\* whose first word is w
TopDirective(line) ==
    LET Word(w) ==
            IF w = <<"D", "E", "C", "L", "A", "R", "E">>
            THEN Directive("DECLARE", "pnames", <<>>, Tail(SplitAll(Strip(Replace(line, ",", " ")))), 0)
            ELSE IF w = <<"M", "A", "X", "R", "U", "N">> THEN MaxrunOperand(SplitAll(Strip(line)))
            ELSE IF w = <<"W", "O", "R", "K", "D", "I", "R">> THEN TextOperand("WORKDIR", "WORKDIR", SplitWs(Strip(line), 1))
            ELSE IF IsWord(TemplateWords, w)
            THEN TextOperand("TEMPLATE", KeyOf(TemplateWords, w), SplitWs(Strip(line), 1))
            ELSE IF IsWord(ValuesWords, w)
            THEN ListOperand(KeyOf(ValuesWords, w), SplitWs(Strip(Replace(line, ",", " ")), 1))
            ELSE IF w = <<"C", "M", "D", "_", "A", "C", "C", "_", "O", "P">> THEN TextOperand("CMD_ACC_OP", "CMD_ACC_OP", SplitWs(Strip(line), 1))
            ELSE IF Strip(line) = <<"P", "S", "P", "A", "C", "E", ":">> THEN Bare("PSPACE")
            ELSE Bare("SyntaxError")
    IN  Word(FirstWord(line))

\* ------------------------------------------------------------------------
\* parse_conf: the lines of a PSPACE context
\* ------------------------------------------------------------------------

RangeOk(values) == [status |-> "ok", values |-> values]

RangeFails(status) == [status |-> status, values |-> <<>>]

\* Arange with the stop included
ArangeClosed(start, stop, step) ==
    LET Length == IF stop < start THEN 0 ELSE ((stop - start) \div step) + 1
    IN  [i \in 1..Length |-> start + (i - 1) * step]

\* the numbers start, start + step, ... below stop, for a positive step
Arange(start, stop, step) ==
    LET Length == IF stop <= start THEN 0 ELSE ((stop - start) + step - 1) \div step
    IN  [i \in 1..Length |-> start + (i - 1) * step]

\* numpy.arange(start, stop, step) for a number start and numbers or None
\* stop and step: without a stop the start is the stop and the start is 0,
\* without a step the step is 1
NumpyArange(start, stop, step) ==
    LET StepOrOne == IF step = None THEN Scale ELSE step[1]
    IN  IF step # None /\ step[1] = 0 THEN RangeFails("ZeroDivisionError")
        ELSE IF stop = None THEN RangeOk(Arange(0, start, StepOrOne))
        ELSE RangeOk(Arange(start, stop[1], StepOrOne))

\* float(s) if s else None
OptFloat(s) ==
    LET Of(f) == [ok |-> s = <<>> \/ f.ok, v |-> IF s = <<>> \/ ~f.ok THEN None ELSE Some(f.v)]
    IN  Of(PyFloat(s))

\* lines 2114-2131: the values of one range
ExpandRange(range) ==
    LET \* line 2115: a single number
        Number(f) == IF f.ok THEN RangeOk(<<f.v>>) ELSE RangeFails("ValueError")
        \* lines 2117-2123: start:end
        StartEnd(start, end) ==
            IF ~start.ok \/ ~end.ok THEN RangeFails("ValueError")
            ELSE IF start.v = None
            THEN IF end.v = None THEN RangeFails("TypeError")
                 ELSE NumpyArange(0, end.v, None)
            ELSE NumpyArange(start.v[1], end.v, None)
        \* lines 2125-2129: start:end:step, the start 0 when it is left out
        StartEndStep(start, end, step) ==
            IF ~start.ok \/ ~end.ok \/ ~step.ok THEN RangeFails("ValueError")
            ELSE NumpyArange(IF start.v = None THEN 0 ELSE start.v[1], end.v, step.v)
        Colons(n, parts) ==
            IF n = 0 THEN Number(PyFloat(range))
            ELSE IF n = 1 THEN StartEnd(OptFloat(parts[1]), OptFloat(parts[2]))
            ELSE IF n = 2
            THEN StartEndStep(OptFloat(parts[1]), OptFloat(parts[2]), OptFloat(parts[3]))
            ELSE RangeFails("SyntaxError")
    IN  Colons(Count(range, ":"), Split(range, ":"))

\* the loop over the ranges of a PARAM line, from range i on (line 2111)
RECURSIVE ExpandRanges(_, _, _)
ExpandRanges(ranges, i, values) ==
    LET Next(r) ==
            IF r.status # "ok" THEN r ELSE ExpandRanges(ranges, i + 1, values \o r.values)
    IN  IF i > Len(ranges) THEN RangeOk(values) ELSE Next(ExpandRange(ranges[i]))

\* lines 2108-2131: keyword, name, ranges = ...split(None, 2)
ParamOperand(parts) ==
    LET Values(name, r) ==
            IF r.status # "ok" THEN Bare(r.status)
            ELSE Directive("PARAM", "values", name, r.values, 0)
    IN  IF Len(parts) # 3 THEN Bare("ValueError")
        ELSE Values(parts[2], ExpandRanges(SplitAll(parts[3]), 1, <<>>))

\* the number m * 10^-e thousandths, m without trailing zeros while e > 0
RECURSIVE Decimal(_, _)
Decimal(m, e) ==
    IF e > 0 /\ m % 10 = 0 THEN Decimal(m \div 10, e - 1) ELSE [m |-> m, e |-> e]

\* lines 2144-2164: keyword, acc = line.strip().split(), and the suffixes
\* %, ppm and ppb; any failure is a syntax error
AccOperand(words) ==
    LET \* float(text) / 10^e
        Float(f, e) ==
            IF ~f.ok THEN Bare("SyntaxError")
            ELSE Directive("ACC", "acc", <<>>, <<>>, Decimal(f.v, e))
        Word(acc) ==
            IF EndsWith(acc, <<"%">>) THEN Float(PyFloat(SubSeq(acc, 1, Len(acc) - 1)), 2)
            ELSE IF EndsWith(acc, <<"p", "p", "m">>) THEN Float(PyFloat(SubSeq(acc, 1, Len(acc) - 3)), 6)
            ELSE IF EndsWith(acc, <<"p", "p", "b">>) THEN Float(PyFloat(SubSeq(acc, 1, Len(acc) - 3)), 9)
            ELSE Float(PyFloat(acc), 0)
    IN  IF Len(words) # 2 THEN Bare("SyntaxError") ELSE Word(words[2])

\* lines 2107-2184: the directive of a line of a PSPACE context; a first
\* word other than PARAM and ACC has no branch
BlockDirective(line) ==
    LET Word(w) ==
            IF w = <<"P", "A", "R", "A", "M">> THEN ParamOperand(SplitWs(Strip(Replace(line, ",", " ")), 2))
            ELSE IF w = <<"A", "C", "C">> THEN AccOperand(SplitAll(Strip(line)))
            ELSE Bare("nothing")
    IN  Word(FirstWord(line))

\* lines 1884-1910: what the loop asks of a line before it looks at its words
LineInfo(line) ==
    [blank |-> Strip(line) = <<>>,
     indented |-> IsSpace(line[1]),
     indent |-> Len(line) - Len(LStrip(line)),
     comment |-> StartsWith(Strip(line), <<"#">>),
     top |-> IF Strip(line) = <<>> \/ StartsWith(Strip(line), <<"#">>) THEN Bare("nothing")
             ELSE TopDirective(Split1(line, "#")[1]),
     block |-> IF Strip(line) = <<>> THEN Bare("nothing") ELSE BlockDirective(line)]

\* ------------------------------------------------------------------------
\* parse_conf: the configuration and what a directive does to it
\* ------------------------------------------------------------------------

\* the data structure to hold the configuration (lines 1871-1877);
\* WORKDIR_RAW is a key only once WORKDIR is given
Conf0 ==
    [pnames |-> <<>>, MAXRUN |-> None, WORKDIR |-> <<>>, WORKDIR_RAW |-> None,
     DATAFILE |-> <<>>, DATAFILE_VALUES |-> <<>>,
     CMD_EXEC |-> <<>>, CMD_EXEC_VALUES |-> <<>>,
     CMD_FILE |-> <<>>, CMD_FILE_VALUES |-> <<>>,
     CMD_ACC |-> <<>>, CMD_ACC_VALUES |-> <<>>, CMD_ACC_OP |-> "",
     CMD_CHECKFILE |-> <<>>, CMD_CHECKFILE_VALUES |-> <<>>,
     pspaces |-> <<>>]

\* the allowed symbols of CMD_ACC_OP (line 2087)
OperatorWords ==
    << [word |-> <<"<">>, key |-> "<"], [word |-> <<">">>, key |-> ">"],
       [word |-> <<"<", "=">>, key |-> "<="], [word |-> <<">", "=">>, key |-> ">="],
       [word |-> <<"=", "=">>, key |-> "=="], [word |-> <<"!", "=">>, key |-> "!="] >>

NoMsg == [text |-> "", line |-> 0]

\* the loop goes on with the next line
Goes(conf, context, indent) ==
    [pc |-> "loop", msg |-> NoMsg, conf |-> conf, context |-> context, indent |-> indent]

\* an exception ends the call: nothing of the configuration is left
Throws(exc) ==
    [pc |-> exc, msg |-> NoMsg, conf |-> Conf0, context |-> "None", indent |-> None]

\* a message pspace: <file>:<line>: <text> on stderr and sys.exit(1), for
\* the line of index lind
Exits(text, lind) ==
    [pc |-> "SystemExit", msg |-> [text |-> text, line |-> lind + 1], conf |-> Conf0,
     context |-> "None", indent |-> None]

\* a message pspace: <file>: <text> without a line, and sys.exit(1)
ExitsNoLine(text) ==
    [pc |-> "SystemExit", msg |-> [text |-> text, line |-> 0], conf |-> Conf0,
     context |-> "None", indent |-> None]

\* conf_syntax_error naming the index of the line, which counts from 0
conf_syntax_error_index(line_index) == Exits("syntax error", line_index - 1)

conf_syntax_error(line_index) == Exits("syntax error", line_index)

\* Declare without the check for names that are declared already
RECURSIVE DeclareUnchecked(_, _, _, _)
DeclareUnchecked(conf, lind, names, i) ==
    IF i > Len(names) THEN Goes(conf, "None", None)
    ELSE DeclareUnchecked([conf EXCEPT !.pnames = Append(@, names[i])], lind, names, i + 1)

\* lines 1912-1923: the loop over the names of a DECLARE line, from name i on
RECURSIVE Declare(_, _, _, _)
Declare(conf, lind, names, i) ==
    IF i > Len(names) THEN Goes(conf, "None", None)
    ELSE IF InSeq(names[i], conf.pnames) THEN Exits("already declared", lind)
    ELSE Declare([conf EXCEPT !.pnames = Append(@, names[i])], lind, names, i + 1)

\* lines 1933-1943
Maxrun(conf, lind, number) ==
    IF number < 1 THEN Exits("MAXRUN must be positive integer", lind)
    ELSE IF conf.MAXRUN # None THEN Exits("already specified", lind)
    ELSE Goes([conf EXCEPT !.MAXRUN = Some(number)], "None", None)

\* lines 1949-1955
Workdir(conf, lind, workdir) ==
    IF conf.WORKDIR # <<>> THEN Exits("already specified", lind)
    ELSE Goes([conf EXCEPT !.WORKDIR = Abspath(Expanduser(workdir)),
                           !.WORKDIR_RAW = Some(workdir)], "None", None)

\* the templates and their value lists (lines 1958-2074): once each
SetOnce(conf, lind, key, value) ==
    IF conf[key] # <<>> THEN Exits("already specified", lind)
    ELSE Goes([conf EXCEPT ![key] = value], "None", None)

\* lines 2078-2091
CmdAccOp(conf, lind, op) ==
    IF conf.CMD_ACC_OP # "" THEN Exits("already specified", lind)
    ELSE IF ~IsWord(OperatorWords, op) THEN Exits("unknown comparison operator", lind)
    ELSE Goes([conf EXCEPT !.CMD_ACC_OP = KeyOf(OperatorWords, op)], "None", None)

\* lines 2094-2097: enter the context
EnterPspace(conf) ==
    Goes([conf EXCEPT !.pspaces = Append(@, [values |-> <<>>, acc |-> None])], "PSPACE", None)

\* a line at top level with the directive d (lines 1911-2101)
ApplyTop(conf, lind, d) ==
    IF d.kind = "DECLARE" THEN Declare(conf, lind, d.list, 1)
    ELSE IF d.kind = "MAXRUN" THEN Maxrun(conf, lind, d.num)
    ELSE IF d.kind = "WORKDIR" THEN Workdir(conf, lind, d.text)
    ELSE IF d.kind = "TEMPLATE" THEN SetOnce(conf, lind, d.key, d.text)
    ELSE IF d.kind = "VALUES" THEN SetOnce(conf, lind, d.key, d.list)
    ELSE IF d.kind = "CMD_ACC_OP" THEN CmdAccOp(conf, lind, d.text)
    ELSE IF d.kind = "PSPACE" THEN EnterPspace(conf)
    ELSE IF d.kind = "SyntaxError" THEN conf_syntax_error(lind)
    ELSE Throws(d.kind)

\* lines 2134-2140: conf['pspaces'][-1]['values'][name] = values
ParamStore(conf, indent, lind, name, values) ==
    IF HasKey(conf.pspaces[Len(conf.pspaces)].values, name)
    THEN Exits("already specified in this context", lind)
    ELSE Goes([conf EXCEPT !.pspaces[Len(conf.pspaces)].values =
                               Append(@, [key |-> name, list |-> values])],
              "PSPACE", indent)

\* lines 2174-2183: conf['pspaces'][-1]['acc'] = acc
AccStore(conf, indent, lind, acc) ==
    IF conf.pspaces[Len(conf.pspaces)].acc # None
    THEN Exits("already specified in this context", lind)
    ELSE Goes([conf EXCEPT !.pspaces[Len(conf.pspaces)].acc = Some(acc)], "PSPACE", indent)

\* a line of the context with the directive d (lines 2105-2184): a line
\* that is neither PARAM nor ACC changes nothing
ApplyBlock(conf, indent, lind, d) ==
    IF d.kind = "PARAM" THEN ParamStore(conf, indent, lind, d.text, d.list)
    ELSE IF d.kind = "ACC" THEN AccStore(conf, indent, lind, d.num)
    ELSE IF d.kind = "nothing" THEN Goes(conf, "PSPACE", indent)
    ELSE IF d.kind = "SyntaxError" THEN conf_syntax_error(lind)
    ELSE Throws(d.kind)

\* InContext without the check of the indent
InContextAnyIndent(conf, indent, lind, info) ==
    ApplyBlock(conf, Some(info.indent), lind, info.block)

\* lines 1896-1900 and 2105: the indent of a line that stays in the context
InContext(conf, indent, lind, info) ==
    IF indent # None /\ indent[1] # info.indent THEN Exits("unexpected indent", lind)
    ELSE ApplyBlock(conf, Some(info.indent), lind, info.block)

\* lines 1902-1910: a line at top level
AtTopLevel(conf, lind, info) ==
    IF info.comment THEN Goes(conf, "None", None) ELSE ApplyTop(conf, lind, info.top)

\* the body of the loop over the lines (lines 1883-2187) for the line of
\* index lind
LineStep(conf, context, indent, lind, info) ==
    IF info.blank THEN Goes(conf, context, indent)
    ELSE IF context # "None" /\ info.indented THEN InContext(conf, indent, lind, info)
    ELSE AtTopLevel(conf, lind, info)

\* lines 2192-2196
UsesUndeclared(conf) ==
    \E b \in 1..Len(conf.pspaces) : \E k \in 1..Len(conf.pspaces[b].values) :
        ~InSeq(conf.pspaces[b].values[k].key, conf.pnames)

\* LacksAcc without the check
LacksAccUnchecked(conf) == FALSE

\* lines 2212-2216
LacksAcc(conf) == \E b \in 1..Len(conf.pspaces) : conf.pspaces[b].acc = None

\* lines 2219-2223
LacksParam(conf) ==
    \E b \in 1..Len(conf.pspaces) : \E i \in 1..Len(conf.pnames) :
        ~HasKey(conf.pspaces[b].values, conf.pnames[i])

\* Defaults without the defaults
DefaultsNone(conf) == conf

\* lines 2239-2244: the defaults
Defaults(conf) ==
    [conf EXCEPT !.WORKDIR = IF @ = <<>> THEN Expanduser(<<"~">>) ELSE @,
                 !.CMD_ACC_OP = IF @ = "" THEN "<=" ELSE @]

\* lines 2190-2247: the checks after the last line, and the return; the
\* message of a missing CMD_CHECKFILE is formatted with an operand it has no
\* conversion for
Finish(conf) ==
    IF UsesUndeclared(conf) THEN ExitsNoLine("undecleared")
    ELSE IF LacksAcc(conf) THEN ExitsNoLine("missing ACC in PSPACE context")
    ELSE IF LacksParam(conf) THEN ExitsNoLine("missing in PSPACE context")
    ELSE IF conf.CMD_ACC = <<>> THEN ExitsNoLine("missing CMD_ACC specification")
    ELSE IF conf.CMD_EXEC = <<>> THEN ExitsNoLine("missing CMD_EXEC specification")
    ELSE IF conf.CMD_FILE = <<>> THEN ExitsNoLine("missing CMD_FILE specification")
    ELSE IF conf.CMD_CHECKFILE = <<>> THEN Throws("TypeError")
    ELSE IF conf.DATAFILE = <<>> THEN ExitsNoLine("missing DATAFILE specification")
    ELSE [pc |-> "returned", msg |-> NoMsg, conf |-> Defaults(conf),
          context |-> "None", indent |-> None]

\* ------------------------------------------------------------------------
\* The state: the inputs and results of one run of each function
\* ------------------------------------------------------------------------

VARIABLES
    f_pnames,    \* filter_psets: the declared parameter names (conf['pnames'])
    f_written,   \* per entry of f_psets, each parameter's literal in the configuration
    f_psets,     \* filter_psets: the input mapping
    f_opts,      \* filter_psets: the --param option string
    f_pc,        \* "start", "once" (filtered), "twice" (the result filtered again)
    f_res1,      \* the outcome of filter_psets(f_psets, f_opts, f_pnames)
    f_res2,      \* the outcome of filtering f_res1's mapping again
    e_conf,      \* compute_psets: the configuration
    e_bi,        \* compute_psets: the index of the block of the outer loop
    e_ci,        \* compute_psets: the index of the combination of the inner loop
    e_psets,     \* compute_psets: the mapping psets
    e_pc,        \* "idle", "loop", "returned" or the exception raised
    e_seen,      \* what the collisions of this run did: "kept", "replaced"
    p_conf,      \* parse_conf: the configuration conf
    p_context,   \* parse_conf: "None" or "PSPACE"
    p_indent,    \* parse_conf: the indent of the context, or None
    p_lind,      \* parse_conf: the number of lines read
    p_pc,        \* "idle", "loop", "returned" or the exception raised
    p_msg,       \* the message on stderr: its text and its line number (0: none)
    p_line,      \* the line read last
    q_kind,      \* get_qdata: the type of what check_output returns, "bytes" or "str"
    q_dump,      \* get_qdata: the lines of the output of `qstat -f`
    q_pc,        \* "idle", "start", "parsed", "counted" or the exception raised
    q_qdata,     \* get_qdata: the mapping qdata
    q_count,     \* info: the number of jobs of the configuration, in all and per state
    s_in,        \* submit: MAXRUN, the options and what is on disk for each key
    s_i,         \* submit: the index of the key of the loop
    s_diff,      \* submit: diff_to_maxrun
    s_jobs,      \* submit: the keys handed to qsub, in order
    s_pc,        \* "idle", "start", "loop", "returned" or the exception raised
    r_in,        \* retry: the keyword retries and what each call of func does
    r_st,        \* retry: tries, the calls made, the sleeps, and where it is
    a_in,        \* a measured accuracy, a target accuracy and CMD_ACC_OP
    a_res,       \* what submit, info and list decide about a_in
    w_in,        \* a command and what happens in each of its configurations
    w_st         \* the working directory, the one recorded, and where the command is

fvars == <<f_pnames, f_written, f_psets, f_opts, f_pc, f_res1, f_res2>>

evars == <<e_conf, e_bi, e_ci, e_psets, e_pc, e_seen>>

pvars == <<p_conf, p_context, p_indent, p_lind, p_pc, p_msg, p_line>>

qvars == <<q_kind, q_dump, q_pc, q_qdata, q_count, s_in, s_i, s_diff, s_jobs, s_pc>>

rvars == <<r_in, r_st, a_in, a_res, w_in, w_st>>

vars == <<fvars, evars, pvars, qvars, rvars>>

\* the variables of a function that is not run
IdleFilter ==
    /\ f_pnames = <<>>
    /\ f_written = <<>>
    /\ f_psets = <<>>
    /\ f_opts = <<>>
    /\ f_pc = "idle"
    /\ f_res1 = [status |-> "none", psets |-> <<>>]
    /\ f_res2 = [status |-> "none", psets |-> <<>>]

IdleExpand ==
    /\ e_conf = [pnames |-> <<>>]
    /\ e_bi = 0
    /\ e_ci = 0
    /\ e_psets = <<>>
    /\ e_pc = "idle"
    /\ e_seen = {}

IdleParse ==
    /\ p_conf = [pnames |-> <<>>]
    /\ p_context = "None"
    /\ p_indent = <<>>
    /\ p_lind = 0
    /\ p_pc = "idle"
    /\ p_msg = [text |-> "", line |-> 0]
    /\ p_line = <<>>

IdleRest ==
    /\ r_in = <<>>
    /\ r_st = <<>>
    /\ a_in = <<>>
    /\ a_res = <<>>
    /\ w_in = <<>>
    /\ w_st = <<>>

IdleQueue ==
    /\ q_kind = "bytes"
    /\ q_dump = <<>>
    /\ q_pc = "idle"
    /\ q_qdata = <<>>
    /\ q_count = <<>>
    /\ s_in = <<>>
    /\ s_i = 0
    /\ s_diff = <<>>
    /\ s_jobs = <<>>
    /\ s_pc = "idle"

\* ------------------------------------------------------------------------
\* Inputs of filter_psets
\* ------------------------------------------------------------------------

nA == <<"A">>
nB == <<"B">>
nZ == <<"Z">>
\* parameter sets as written in a configuration with DECLARE A,B; the value
\* of a parameter is float() of its literal (parse_conf, line 2116)
WrittenPool ==
    << [key |-> "k13", text |-> [A |-> <<"1">>, B |-> <<"3">>]],
       [key |-> "k17", text |-> [A |-> <<"1", ".", "0">>, B |-> <<"7">>]],
       [key |-> "k23", text |-> [A |-> <<"2">>, B |-> <<"3">>]] >>

PsetOf(w) ==
    [key |-> w.key,
     pset |-> [n \in {nA, nB, nACC} |->
                 IF n = nA THEN PyFloat(w.text.A).v
                 ELSE IF n = nB THEN PyFloat(w.text.B).v
                 ELSE 1]]

\* a configuration that declares nothing has, per block, one parameter set
\* without parameters
PsetNoParams == [key |-> "k", pset |-> [n \in {nACC} |-> 1]]

\* the subsequences of a sequence, order kept
SubSeqs(s) ==
    {SelectSeq([i \in 1..Len(s) |-> <<i, s[i]>>], LAMBDA e : e[1] \in I) :
        I \in SUBSET (1..Len(s))}

PairPool ==
    { <<>>,
      <<"A", "=", "1">>,
      <<"A", "=", "1", ".", "0">>,
      <<" ", "A", " ", "=", " ", "2", " ">>,
      <<"B", "=", ":", "5">>,
      <<"B", "=", "3", ":">>,
      <<"B", "=", "3", ":", "7">>,
      <<"B", "=", ":">>,
      <<"Z", "=", "1">>,
      <<"A", "C", "C", "=", "0", ".", "0", "0", "1">>,
      <<"A">>,
      <<"A", "=", "1", "=", "2">>,
      <<"B", "=", "1", ":", "2", ":", "3">>,
      <<"A", "=", "x">>,
      <<"B", "=", "x", ":", "5">> }

OptStrings ==
    {Join(ps, <<",">>) : ps \in UNION {[1..n -> PairPool] : n \in 0..MaxPairs}}

InitFilter ==
    /\ \/ /\ f_pnames = <<nA, nB>>
          /\ \E ws \in SubSeqs(WrittenPool) :
                /\ f_written = [i \in 1..Len(ws) |-> ws[i][2]]
                /\ f_psets = [i \in 1..Len(ws) |-> PsetOf(ws[i][2])]
       \/ /\ f_pnames = <<>>
          /\ f_written = <<>>
          /\ f_psets \in {<<>>, <<PsetNoParams>>}
    /\ f_opts \in OptStrings
    /\ f_pc = "start"
    /\ f_res1 = [status |-> "none", psets |-> <<>>]
    /\ f_res2 = [status |-> "none", psets |-> <<>>]
    /\ IdleExpand
    /\ IdleParse
    /\ IdleQueue
    /\ IdleRest

\* psets = filter_psets(compute_psets(conf), opts.param, conf['pnames'])
CallFilter ==
    /\ f_pc = "start"
    /\ f_res1' = filter_psets(f_psets, f_opts, f_pnames)
    /\ f_pc' = "once"
    /\ UNCHANGED <<f_pnames, f_written, f_psets, f_opts, f_res2, evars, pvars, qvars, rvars>>

\* the returned mapping filtered once more with the same option string; a
\* failure of the first call is the failure of the whole expression
CallFilterAgain ==
    /\ f_pc = "once"
    /\ f_res2' = IF f_res1.status = "returned"
                 THEN filter_psets(f_res1.psets, f_opts, f_pnames)
                 ELSE f_res1
    /\ f_pc' = "twice"
    /\ UNCHANGED <<f_pnames, f_written, f_psets, f_opts, f_res1, evars, pvars, qvars, rvars>>

NextFilter == CallFilter \/ CallFilterAgain

SpecFilter == InitFilter /\ [][NextFilter]_vars

\* ------------------------------------------------------------------------
\* compute_psets: inputs and steps
\* ------------------------------------------------------------------------

\* largest number of PSPACE blocks of a configuration
MaxBlocks == 2

\* the blocks of the model: value lists for A (1.4 rounds to 1) and B, and a
\* target accuracy of 0.001 or 0.1
BlockPool ==
    {[values |-> [n \in {nA, nB} |-> IF n = nA THEN a ELSE b], acc |-> c] :
        a \in {<<Scale>>, <<Scale, Scale + 400>>, <<Scale + 400, 2 * Scale>>},
        b \in {<<3 * Scale>>, <<3 * Scale, 4 * Scale>>},
        c \in {1, 100}}

\* templates and value expressions: d%d of A, and d%d_%d of A and A+B
DatafilePool ==
    { [DATAFILE |-> <<"d", "%", "d">>, DATAFILE_VALUES |-> <<nA>>],
      [DATAFILE |-> <<"~", "/", "d", "%", "d", "_", "%", "d">>,
       DATAFILE_VALUES |-> <<nA, <<"A", "+", "B">> >>] }

\* configurations as parse_conf returns them: every block has a list for
\* every declared parameter and an accuracy, the operator is one of the six
ConfPool ==
    {[pnames |-> pn, pspaces |-> bs, DATAFILE |-> d.DATAFILE,
      DATAFILE_VALUES |-> d.DATAFILE_VALUES, CMD_ACC_OP |-> op,
      WORKDIR |-> <<"/", "w">>] :
        pn \in {<<nA>>, <<nA, nB>>},
        bs \in UNION {[1..n -> BlockPool] : n \in 1..MaxBlocks},
        d \in DatafilePool,
        op \in Operators}

InitExpand ==
    /\ e_conf \in ConfPool
    /\ e_bi = 1
    /\ e_ci = 1
    /\ e_psets = <<>>
    /\ e_pc = "loop"
    /\ e_seen = {}
    /\ IdleFilter
    /\ IdleParse
    /\ IdleQueue
    /\ IdleRest

\* the combinations of block bi
Combos(conf, bi) == Product(BlockLists(conf, conf.pspaces[bi]))

\* what the pass does when the key is already in the mapping
Seen(psets, new, op) ==
    IF ~HasKey(psets, new.key) THEN {}
    ELSE IF compare(Lookup(psets, new.key).pset[nACC], new.pset[nACC], op)
    THEN {"kept"} ELSE {"replaced"}

\* lines 1771-1793 for the parameter set new of the current combination
ComputeStore(new) ==
    IF new.status # "ok"
    THEN /\ e_pc' = new.status
         /\ e_psets' = <<>>
         /\ UNCHANGED <<e_ci, e_seen>>
    ELSE /\ e_psets' = Collide(e_psets, new.entry, e_conf.CMD_ACC_OP)
         /\ e_ci' = e_ci + 1
         /\ e_seen' = e_seen \cup Seen(e_psets, new.entry, e_conf.CMD_ACC_OP)
         /\ UNCHANGED e_pc

\* one pass of the inner loop (lines 1766-1793)
ComputeCombo ==
    /\ e_pc = "loop"
    /\ e_bi <= Len(e_conf.pspaces)
    /\ e_ci <= Len(Combos(e_conf, e_bi))
    /\ ComputeStore(NewEntry(e_conf, e_conf.pspaces[e_bi], Combos(e_conf, e_bi)[e_ci]))
    /\ UNCHANGED <<e_conf, e_bi, fvars, pvars, qvars, rvars>>

\* the inner loop is exhausted: the next block (line 1765)
ComputeNextBlock ==
    /\ e_pc = "loop"
    /\ e_bi <= Len(e_conf.pspaces)
    /\ e_ci > Len(Combos(e_conf, e_bi))
    /\ e_bi' = e_bi + 1
    /\ e_ci' = 1
    /\ UNCHANGED <<e_conf, e_psets, e_pc, e_seen, fvars, pvars, qvars, rvars>>

\* return psets (line 1796)
ComputeReturn ==
    /\ e_pc = "loop"
    /\ e_bi > Len(e_conf.pspaces)
    /\ e_pc' = "returned"
    /\ UNCHANGED <<e_conf, e_bi, e_ci, e_psets, e_seen, fvars, pvars, qvars, rvars>>

NextExpand == ComputeCombo \/ ComputeNextBlock \/ ComputeReturn

SpecExpand == InitExpand /\ [][NextExpand]_vars

\* ------------------------------------------------------------------------
\* parse_conf: inputs and steps
\* ------------------------------------------------------------------------

\* largest number of lines of a configuration file
MaxLines == 10

\* the five templates, the first with an annotation at its end
TemplateLines ==
    << <<"D", "A", "T", "A", "F", "I", "L", "E", " ", "d", "%", "d", " ", "#", " ", "n", "a", "m", "e", "\n">>, <<"C", "M", "D", "_", "E", "X", "E", "C", " ", "e", "\n">>, <<"C", "M", "D", "_", "F", "I", "L", "E", " ", "f", "\n">>,
       <<"C", "M", "D", "_", "C", "H", "E", "C", "K", "F", "I", "L", "E", " ", "c", "\n">>, <<"C", "M", "D", "_", "A", "C", "C", " ", "a", "\n">> >>

\* the lines the configuration files are made of
Ln ==
    [ Pspace |-> <<"P", "S", "P", "A", "C", "E", ":", "\n">>,
      ParamA |-> <<" ", " ", "P", "A", "R", "A", "M", " ", "A", " ", "1", "\n">>,
      Acc |-> <<" ", " ", "A", "C", "C", " ", "1", "\n">>,
      AccDeep |-> <<" ", " ", " ", " ", "A", "C", "C", " ", "1", "\n">>,
      ParamBad |-> <<" ", " ", "P", "A", "R", "A", "M", " ", "A", " ", "x", "\n">>,
      AccBad |-> <<" ", " ", "A", "C", "C", " ", "x", "\n">>,
      Unknown |-> <<"F", "O", "O", " ", "1", "\n">>,
      UnknownIn |-> <<" ", " ", "F", "O", "O", " ", "1", "\n">>,
      Blank |-> <<"\n">>,
      Comment |-> <<"#", " ", "c", "\n">>,
      DeclareA |-> <<"D", "E", "C", "L", "A", "R", "E", " ", "A", "\n">>,
      DeclareB |-> <<"D", "E", "C", "L", "A", "R", "E", " ", "B", "\n">>,
      DeclareAB |-> <<"D", "E", "C", "L", "A", "R", "E", " ", "A", ",", "B", "\n">>,
      DeclareBA |-> <<" ", "D", "E", "C", "L", "A", "R", "E", " ", "B", ",", " ", "A", "\n">>,
      DeclareAA |-> <<"D", "E", "C", "L", "A", "R", "E", " ", "A", " ", "A", "\n">>,
      DeclareC |-> <<"D", "E", "C", "L", "A", "R", "E", " ", "C", " ", "#", " ", "t", "h", "i", "r", "d", "\n">>,
      Workdir |-> <<"W", "O", "R", "K", "D", "I", "R", " ", "~", "/", "w", "\n">>,
      WorkdirRel |-> <<"W", "O", "R", "K", "D", "I", "R", " ", "w", "\n">>,
      Maxrun |-> <<"M", "A", "X", "R", "U", "N", " ", "2", "\n">>,
      Values |-> <<"D", "A", "T", "A", "F", "I", "L", "E", "_", "V", "A", "L", "U", "E", "S", " ", "A", ",", " ", "A", "+", "B", "\n">>,
      CommentIn |-> <<" ", " ", "#", " ", "c", "\n">>,
      DeclareANote |-> <<"D", "E", "C", "L", "A", "R", "E", " ", "A", " ", "#", " ", "c", "\n">>,
      PspaceNote |-> <<"P", "S", "P", "A", "C", "E", ":", " ", "#", " ", "c", "\n">>,
      ParamANote |-> <<" ", " ", "P", "A", "R", "A", "M", " ", "A", " ", "1", " ", "#", " ", "c", "\n">>,
      AccNote |-> <<" ", " ", "A", "C", "C", " ", "1", " ", "#", " ", "c", "\n">> ]

\* CMD_ACC_OP lines: the six operators, and tokens that are none of them
OpLines ==
    << <<"C", "M", "D", "_", "A", "C", "C", "_", "O", "P", " ", "<", "\n">>, <<"C", "M", "D", "_", "A", "C", "C", "_", "O", "P", " ", ">", "\n">>, <<"C", "M", "D", "_", "A", "C", "C", "_", "O", "P", " ", "<", "=", "\n">>, <<"C", "M", "D", "_", "A", "C", "C", "_", "O", "P", " ", ">", "=", "\n">>,
       <<"C", "M", "D", "_", "A", "C", "C", "_", "O", "P", " ", "=", "=", "\n">>, <<"C", "M", "D", "_", "A", "C", "C", "_", "O", "P", " ", "!", "=", "\n">>, <<"C", "M", "D", "_", "A", "C", "C", "_", "O", "P", " ", "=", "<", "\n">>, <<"C", "M", "D", "_", "A", "C", "C", "_", "O", "P", " ", "<", " ", "=", "\n">>,
       <<"C", "M", "D", "_", "A", "C", "C", "_", "O", "P", " ", "l", "t", "\n">> >>

\* files of templates, declarations and blocks for one parameter in any order
TopLines ==
    {TemplateLines[i] : i \in 1..Len(TemplateLines)}
        \cup {Ln.DeclareA, Ln.Pspace, Ln.ParamA, Ln.Acc, Ln.Blank}

\* files that start with the five templates and go on with CMD_ACC_OP,
\* WORKDIR and other top-level lines
OperatorLines ==
    {OpLines[i] : i \in 1..Len(OpLines)}
        \cup {Ln.Workdir, Ln.WorkdirRel, Ln.Maxrun, Ln.Values, Ln.Blank, Ln.Comment}

OperatorFileLines(lind) ==
    IF lind < Len(TemplateLines) THEN {TemplateLines[lind + 1]} ELSE OperatorLines

\* files that start with the five templates and go on with DECLARE lines
DeclareLines ==
    {Ln.DeclareA, Ln.DeclareB, Ln.DeclareAB, Ln.DeclareBA, Ln.DeclareAA, Ln.DeclareC, Ln.Blank}

DeclareFileLines(lind) ==
    IF lind < Len(TemplateLines) THEN {TemplateLines[lind + 1]} ELSE DeclareLines

\* files that start with the five templates and go on with lines around and
\* inside blocks
BlockLines ==
    {Ln.Pspace, Ln.ParamA, Ln.Acc, Ln.AccDeep, Ln.ParamBad, Ln.AccBad, Ln.Unknown,
     Ln.UnknownIn, Ln.Blank, Ln.DeclareA}

BlockFileLines(lind) ==
    IF lind < Len(TemplateLines) THEN {TemplateLines[lind + 1]} ELSE BlockLines

\* largest start and largest step of the ranges of a PARAM line
MaxStart == 2

MaxStep == 3

\* PARAM lines of one or two ranges over small whole numbers, each with the
\* ranges it was written from: a literal, start:stop, start:stop:step, and
\* a range of three colons; and PARAM lines of a range without its stop,
\* start: or start::step, alone or followed by a literal
RangeFiles ==
    LET Stops == {0, 2, 5, 10}
        Ranges ==
            {[kind |-> "literal", start |-> a, stop |-> 0, step |-> 1] : a \in 0..MaxStart}
            \cup {[kind |-> "pair", start |-> a, stop |-> b, step |-> 1] :
                      a \in 0..MaxStart, b \in Stops}
            \cup {[kind |-> "triple", start |-> a, stop |-> b, step |-> s] :
                      a \in 0..MaxStart, b \in Stops, s \in 1..MaxStep}
            \cup {[kind |-> "quad", start |-> a, stop |-> 5, step |-> 1] : a \in 0..MaxStart}
        NoStops ==
            {[kind |-> "nostop2", start |-> a, stop |-> 0, step |-> 1] : a \in 0..MaxStart}
            \cup {[kind |-> "nostop3", start |-> a, stop |-> 0, step |-> s] :
                      a \in 0..MaxStart, s \in 1..MaxStep}
        Text(r) ==
            IF r.kind = "literal" THEN NatStr(r.start)
            ELSE IF r.kind = "nostop2" THEN NatStr(r.start) \o <<":">>
            ELSE IF r.kind = "nostop3" THEN NatStr(r.start) \o <<":", ":">> \o NatStr(r.step)
            ELSE IF r.kind = "pair" THEN NatStr(r.start) \o <<":">> \o NatStr(r.stop)
            ELSE IF r.kind = "triple"
            THEN NatStr(r.start) \o <<":">> \o NatStr(r.stop) \o <<":">> \o NatStr(r.step)
            ELSE NatStr(r.start) \o <<":">> \o NatStr(r.stop) \o <<":">> \o NatStr(r.step) \o <<":", "1">>
        Line(rs) ==
            <<" ", " ", "P", "A", "R", "A", "M", " ", "A", " ">> \o Text(rs[1])
                \o (IF Len(rs) = 2 THEN <<",">> \o Text(rs[2]) ELSE <<>>) \o <<"\n">>
    IN  {[line |-> Line(rs), ranges |-> rs] :
            rs \in {<<r>> : r \in Ranges \cup NoStops}
                       \cup {<<r1, r2>> : r1 \in Ranges, r2 \in Ranges}
                       \cup {<<r1, r2>> : r1 \in NoStops, r2 \in {r \in Ranges : r.kind = "literal"}}}

\* lines with and without an annotation at their end, and annotation lines,
\* at top level and in a block
NoteLines ==
    {Ln.Comment, Ln.CommentIn, Ln.DeclareA, Ln.DeclareANote, Ln.Pspace, Ln.PspaceNote,
     Ln.ParamA, Ln.ParamANote, Ln.Acc, Ln.AccNote}

\* LineInfo of every line of the model
Info ==
    [line \in TopLines \cup OperatorLines \cup DeclareLines \cup BlockLines \cup NoteLines
                  \cup {rf.line : rf \in RangeFiles} |-> LineInfo(line)]

InitParse ==
    /\ p_conf = Conf0
    /\ p_context = "None"
    /\ p_indent = None
    /\ p_lind = 0
    /\ p_pc = "loop"
    /\ p_msg = NoMsg
    /\ p_line = <<>>
    /\ IdleFilter
    /\ IdleExpand
    /\ IdleQueue
    /\ IdleRest

\* the outcome r of a step becomes the state
Store(r) ==
    /\ p_pc' = r.pc
    /\ p_msg' = r.msg
    /\ p_conf' = r.conf
    /\ p_context' = r.context
    /\ p_indent' = r.indent

\* one pass of the loop over the lines of the file (lines 1882-2187)
ParseLine(line) ==
    /\ p_pc = "loop"
    /\ p_lind < MaxLines
    /\ Store(LineStep(p_conf, p_context, p_indent, p_lind, Info[line]))
    /\ p_lind' = p_lind + 1
    /\ p_line' = line
    /\ UNCHANGED <<fvars, evars, qvars, rvars>>

\* the file has no more lines (lines 2190-2247)
ParseEnd ==
    /\ p_pc = "loop"
    /\ Store(Finish(p_conf))
    /\ UNCHANGED <<p_lind, p_line, fvars, evars, qvars, rvars>>

ReadTopLine == \E line \in TopLines : ParseLine(line)

NextParse == ReadTopLine \/ ParseEnd

SpecParse == InitParse /\ [][NextParse]_vars

ReadOperatorLine == \E line \in OperatorFileLines(p_lind) : ParseLine(line)

NextOperator == ReadOperatorLine \/ ParseEnd

SpecOperator == InitParse /\ [][NextOperator]_vars

ReadDeclareLine == \E line \in DeclareFileLines(p_lind) : ParseLine(line)

NextDeclare == ReadDeclareLine \/ ParseEnd

SpecDeclare == InitParse /\ [][NextDeclare]_vars

ReadBlockLine == \E line \in BlockFileLines(p_lind) : ParseLine(line)

NextBlocks == ReadBlockLine \/ ParseEnd

SpecBlocks == InitParse /\ [][NextBlocks]_vars

\* a file of the five templates, DECLARE A, PSPACE:, one PARAM line of
\* RangeFiles and an ACC line
ReadRangeLine ==
    \E line \in (IF p_lind < Len(TemplateLines) THEN {TemplateLines[p_lind + 1]}
                  ELSE IF p_lind = Len(TemplateLines) THEN {Ln.DeclareA}
                  ELSE IF p_lind = Len(TemplateLines) + 1 THEN {Ln.Pspace}
                  ELSE IF p_lind = Len(TemplateLines) + 2 THEN {rf.line : rf \in RangeFiles}
                  ELSE IF p_lind = Len(TemplateLines) + 3 THEN {Ln.Acc}
                  ELSE {}) : ParseLine(line)

NextRanges == ReadRangeLine \/ ParseEnd

SpecRanges == InitParse /\ [][NextRanges]_vars

\* a file of the five templates and lines of NoteLines
ReadNoteLine ==
    \E line \in (IF p_lind < Len(TemplateLines) THEN {TemplateLines[p_lind + 1]}
                  ELSE NoteLines) : ParseLine(line)

NextNotes == ReadNoteLine \/ ParseEnd

SpecNotes == InitParse /\ [][NextNotes]_vars

\* ------------------------------------------------------------------------
\* retry, get_acc and the decisions that a job has reached its accuracy
\* ------------------------------------------------------------------------

\* RetryPass that gives up one pass late
RetryPassLate(retries, outcomes, st) ==
    IF retries = None
    THEN [st EXCEPT !.pc = "TypeError"]
    ELSE IF ~(st.tries < retries[1] + 1)
    THEN [st EXCEPT !.pc = "returned"]
    ELSE IF outcomes[st.calls + 1] = "return"
    THEN [st EXCEPT !.calls = @ + 1, !.pc = "returned", !.res = Some(st.calls + 1)]
    ELSE IF st.tries + 1 > retries[1]
    THEN [st EXCEPT !.tries = @ + 1, !.calls = @ + 1, !.pc = "raised", !.res = Some(st.calls + 1)]
    ELSE [st EXCEPT !.tries = @ + 1, !.calls = @ + 1, !.sleeps = @ + 1]

\* lines 1469-1483, one pass of the loop of retry. st has tries, the number
\* of calls of func made, the number of sleeps, and pc: "loop", "returned"
\* (res is the call whose result is returned, or None), "raised" (res is the
\* call whose exception goes on) or the exception of retry itself.
\* outcomes[k] is what call k of func does, "return" or "raise".
RetryPass(retries, outcomes, st) ==
    IF retries = None
    THEN [st EXCEPT !.pc = "TypeError"]
    ELSE IF ~(st.tries < retries[1])
    THEN [st EXCEPT !.pc = "returned"]
    ELSE IF outcomes[st.calls + 1] = "return"
    THEN [st EXCEPT !.calls = @ + 1, !.pc = "returned", !.res = Some(st.calls + 1)]
    ELSE IF st.tries + 1 >= retries[1]
    THEN [st EXCEPT !.tries = @ + 1, !.calls = @ + 1, !.pc = "raised", !.res = Some(st.calls + 1)]
    ELSE [st EXCEPT !.tries = @ + 1, !.calls = @ + 1, !.sleeps = @ + 1]

RECURSIVE RetryLoop(_, _, _)
RetryLoop(retries, outcomes, st) ==
    IF st.pc # "loop" THEN st ELSE RetryLoop(retries, outcomes, RetryPass(retries, outcomes, st))

\* retry(func, retries=retries), line 1467: tries = -1
retry(retries, outcomes) ==
    RetryLoop(retries, outcomes, [tries |-> -1, calls |-> 0, sleeps |-> 0, pc |-> "loop", res |-> None])

\* lines 1593-1612. out is what CMD_ACC prints, outcomes[k] what call k of
\* subprocess.check_output does ("raise": the command ends with a status
\* that is not zero); acc is the float, or None
get_acc(out, outcomes) ==
    LET Value(text) ==
            IF text = <<>> THEN None
            ELSE IF PyFloat(text).ok THEN Some(PyFloat(text).v) ELSE None
        After(r) ==
            IF r.pc = "returned" THEN [pc |-> "returned", acc |-> Value(Strip(out))]
            ELSE [pc |-> (IF r.pc = "raised" THEN "CalledProcessError" ELSE r.pc), acc |-> None]
    IN  After(retry(Some(2), outcomes))

\* compare(acc, target, op) for an accuracy that may be None
CompareAcc(acc, target, op) ==
    IF acc # None THEN (IF compare(acc[1], target, op) THEN "True" ELSE "False")
    ELSE IF op = "==" THEN "False"
    ELSE IF op = "!=" THEN "True"
    ELSE "TypeError"

\* lines 313-326 of submit, the check of the accuracy of one parameter set:
\* "finished" (the key is skipped), "unfinished" (the job is submitted) or
\* the exception raised
SubmitFinished(out, outcomes, target, op) ==
    LET Again(g) == [k \in 1..Len(outcomes) |-> IF g.pc = "returned" THEN "return" ELSE "raise"]
        Decide(g, c) ==
            IF c \notin {"True", "False"} THEN c
            ELSE IF g.acc # None /\ c = "True" THEN "finished" ELSE "unfinished"
        After(g, r) ==
            IF r.pc = "raised" THEN g.pc
            ELSE IF r.pc # "returned" THEN r.pc
            ELSE Decide(g, CompareAcc(g.acc, target, op))
    IN  After(get_acc(out, outcomes), retry(None, Again(get_acc(out, outcomes))))

\* lines 718-721 of info, the count of one finished job
InfoFinished(out, outcomes, target) ==
    LET After(g) ==
            IF g.pc # "returned" THEN g.pc
            ELSE IF g.acc # None /\ g.acc[1] <= target THEN "finished" ELSE "unfinished"
    IN  After(get_acc(out, outcomes))

\* lines 1053-1061 of jlist, `finished` of filters f, F and r
ListFinished(out, outcomes, target) ==
    LET After(g) ==
            IF g.pc # "returned" THEN "unfinished"
            ELSE IF g.acc = None \/ g.acc = Some(0) THEN "unfinished"
            ELSE IF g.acc[1] <= target THEN "finished" ELSE "unfinished"
    IN  After(get_acc(out, outcomes))

\* ------------------------------------------------------------------------
\* get_qdata (lines 1667-1729): the mapping of the jobs in `qstat -f1`
\* A mapping is a sequence of entries [key, val] in insertion order; a job
\* record is the mapping of its attributes, every value written as text
\* (str(value): an int by its digits, a bool as True or False).
\* ------------------------------------------------------------------------

\* lines 1675-1694: job_keys, five of the known attribute keys and their types
job_keys ==
    << [key |-> <<"J", "o", "b", "_", "N", "a", "m", "e">>, type |-> "str"],
       [key |-> <<"J", "o", "b", "_", "O", "w", "n", "e", "r">>, type |-> "str"],
       [key |-> <<"j", "o", "b", "_", "s", "t", "a", "t", "e">>, type |-> "str"],
       [key |-> <<"P", "r", "i", "o", "r", "i", "t", "y">>, type |-> "int"],
       [key |-> <<"R", "e", "r", "u", "n", "a", "b", "l", "e">>, type |-> "bool"] >>

\* lines 1700-1726: one pass of the loop over the lines of the output.
\* kind is the type of the output: check_output returns bytes (line 1672),
\* and bytes.startswith(str) at line 1706 raises TypeError; "str" is what
\* the following lines do with text.
QdataLine(kind, qdata, job_id, rawline) ==
    LET Out(pc, qd, id) == [pc |-> pc, qdata |-> qd, job_id |-> id]
        SetItem(d, k, v) ==
            IF HasKey(d, k) THEN [d EXCEPT ![KeyIndex(d, k)].val = v]
            ELSE Append(d, [key |-> k, val |-> v])
        \* keytype(): '', 0, False
        Default(type) ==
            IF type = "str" THEN <<>> ELSE IF type = "int" THEN <<"0">> ELSE <<"F", "a", "l", "s", "e">>
        \* lines 1711-1713
        Fresh == [i \in 1..Len(job_keys) |-> [key |-> job_keys[i].key, val |-> Default(job_keys[i].type)]]
        \* qdata[job_id][key] = value
        SetAttr(key, value) ==
            Out("loop", SetItem(qdata, job_id, SetItem(Lookup(qdata, job_id).val, key, value)), job_id)
        \* line 1722: keytype(value); int() of unsigned digits, bool() of text
        Convert(key, type, value) ==
            IF type = "str" THEN SetAttr(key, value)
            ELSE IF type = "bool" THEN SetAttr(key, IF value = <<>> THEN <<"F", "a", "l", "s", "e">> ELSE <<"T", "r", "u", "e">>)
            ELSE IF value # <<>> /\ AllDigits(value) THEN SetAttr(key, NatStr(DigitsVal(value)))
            ELSE Out("ValueError", qdata, job_id)
        \* lines 1720-1722: line.split('=', 1)[1].strip()
        Known(k, parts) ==
            IF Len(parts) < 2 THEN Out("IndexError", qdata, job_id)
            ELSE Convert(k.key, k.type, Strip(parts[2]))
        \* lines 1724-1726: key, value = line.split('=', 1)
        Unknown(parts) ==
            IF Len(parts) # 2 THEN Out("ValueError", qdata, job_id)
            ELSE SetAttr(parts[1], parts[2])
        \* lines 1715-1726
        Attribute(line, word) ==
            IF job_id = None THEN Out("ValueError", qdata, job_id)
            ELSE IF \E i \in 1..Len(job_keys) : job_keys[i].key = word
            THEN Known(job_keys[CHOOSE i \in 1..Len(job_keys) : job_keys[i].key = word],
                       Split1(line, "="))
            ELSE Unknown(Split1(line, "="))
        \* lines 1708-1713: job_id = words[-1]
        Marker(words) == Out("loop", SetItem(qdata, words[Len(words)], Fresh), words[Len(words)])
        \* lines 1704-1706
        Stripped(line) ==
            IF kind = "bytes" THEN Out("TypeError", qdata, job_id)
            ELSE IF StartsWith(line, <<"J", "o", "b", " ", "I", "d", ":">>) THEN Marker(SplitAll(line))
            ELSE Attribute(line, SplitAll(line)[1])
    IN  IF Strip(rawline) = <<>> THEN Out("loop", qdata, job_id) ELSE Stripped(Strip(rawline))

\* lines 1697-1726: the loop from line i on
RECURSIVE QdataLoop(_, _, _, _)
QdataLoop(kind, lines, i, r) ==
    IF i > Len(lines) \/ r.pc # "loop" THEN r
    ELSE QdataLoop(kind, lines, i + 1, QdataLine(kind, r.qdata, r.job_id, lines[i]))

\* an exception that is taken for a return of what was read so far
get_qdata_partial(kind, lines) ==
    [pc |-> "returned",
     qdata |-> QdataLoop(kind, lines, 1, [pc |-> "loop", qdata |-> <<>>, job_id |-> None]).qdata]

\* lines 1667-1729: the mapping, or the exception raised
get_qdata(kind, lines) ==
    LET Result(r) ==
            IF r.pc = "loop" THEN [pc |-> "returned", qdata |-> r.qdata]
            ELSE [pc |-> r.pc, qdata |-> <<>>]
    IN  Result(QdataLoop(kind, lines, 1, [pc |-> "loop", qdata |-> <<>>, job_id |-> None]))

\* lines 643-647 and 675-687: the jobs of user whose name is in datafiles,
\* their number (column s, line 752) and their number per state
state_count(qdata, user, datafiles) ==
    LET StateCodes == {"R", "Q", "C", "E", "H", "T", "W", "S"}
        Attr(rec, key) == Lookup(rec, key).val
        OfUser(job_info) == Split(Attr(job_info, <<"J", "o", "b", "_", "O", "w", "n", "e", "r">>), "@")[1] = user
        OfConf(job_info) == InSeq(Attr(job_info, <<"J", "o", "b", "_", "N", "a", "m", "e">>), datafiles)
        Tally(qdata_conf) ==
            [s |-> Len(qdata_conf),
             count |-> [c \in StateCodes |->
                 Cardinality({i \in 1..Len(qdata_conf) :
                     /\ HasKey(qdata_conf[i].val, <<"j", "o", "b", "_", "s", "t", "a", "t", "e">>)
                     /\ Attr(qdata_conf[i].val, <<"j", "o", "b", "_", "s", "t", "a", "t", "e">>) = <<c>>})]]
    IN  Tally(SelectSeq(qdata, LAMBDA e : OfUser(e.val) /\ OfConf(e.val)))

\* lines 1582-1590
count_running(keys, qdata) ==
    Cardinality({i \in 1..Len(keys) :
        \E j \in 1..Len(qdata) : Lookup(qdata[j].val, <<"J", "o", "b", "_", "N", "a", "m", "e">>).val = keys[i]})

\* ------------------------------------------------------------------------
\* The inputs of get_qdata, info and submit
\* ------------------------------------------------------------------------

MaxDump == 3

MaxJobs == 2

\* the output for up to MaxJobs jobs: the record of job n is four lines, its
\* marker, its name, its owner and its state (a blank line for no state)
JobDumps(names, owners, states) ==
    LET JobLines(n, job) ==
            << <<"J", "o", "b", " ", "I", "d", ":", " ">> \o NatStr(n) \o <<".", "h">>,
               <<" ", " ", " ", " ", "J", "o", "b", "_", "N", "a", "m", "e", " ", "=", " ">> \o job[1],
               <<" ", " ", " ", " ", "J", "o", "b", "_", "O", "w", "n", "e", "r", " ", "=", " ">> \o job[2],
               IF job[3] = <<>> THEN <<>> ELSE <<" ", " ", " ", " ", "j", "o", "b", "_", "s", "t", "a", "t", "e", " ", "=", " ">> \o job[3] >>
        Lines(jobs) == [i \in 1..(4 * Len(jobs)) |-> JobLines((i + 3) \div 4, jobs[(i + 3) \div 4])[((i - 1) % 4) + 1]]
    IN  {Lines(jobs) : jobs \in UNION {[1..n -> names \X owners \X states] : n \in 0..MaxJobs}}

\* the output is up to MaxDump lines, or the records of up to MaxJobs jobs
\* of two users, in and out of the configuration; info is called for the
\* user u and a configuration with three parameter sets (opts.user, line
\* 646, and sorted(psets.keys()), line 662)
InitQueue ==
    /\ q_kind \in {"bytes", "str"}
    /\ q_dump \in UNION {[1..n ->
                    { <<"J", "o", "b", " ", "I", "d", ":", " ", "1", ".", "h">>, <<"J", "o", "b", " ", "I", "d", ":", " ", "2", ".", "h">>, <<" ", " ", " ", " ", "J", "o", "b", "_", "N", "a", "m", "e", " ", "=", " ", "d", "1", ".", "h", "5">>, <<" ", " ", " ", " ", "J", "o", "b", "_", "O", "w", "n", "e", "r", " ", "=", " ", "u", "@", "h">>,
                      <<" ", " ", " ", " ", "j", "o", "b", "_", "s", "t", "a", "t", "e", " ", "=", " ", "R">>, <<" ", " ", " ", " ", "z", "z", "z", " ", "=", " ", "v", " ", "w">>, <<>>, <<" ", " ", " ", " ", "P", "r", "i", "o", "r", "i", "t", "y", " ", "=", " ", "5">>,
                      <<" ", " ", " ", " ", "P", "r", "i", "o", "r", "i", "t", "y", " ", "=", " ", "x">>, <<" ", " ", " ", " ", "R", "e", "r", "u", "n", "a", "b", "l", "e", " ", "=", " ", "F", "a", "l", "s", "e">>, <<" ", " ", " ", " ", "z", "z", "z">> }] : n \in 0..MaxDump}
                  \cup JobDumps({ <<"d", "1", ".", "h", "5">>, <<"d", "2", ".", "h", "5">>, <<"x", "9">> }, { <<"u", "@", "h">>, <<"v", "@", "h">> }, { <<"R">>, <<"Q">>, <<"X">>, <<>> })
    /\ q_pc = "start"
    /\ q_qdata = <<>>
    /\ q_count = <<>>
    /\ s_in = [user |-> <<"u">>, datafiles |-> << <<"d", "1", ".", "h", "5">>, <<"d", "2", ".", "h", "5">>, <<"d", "3", ".", "h", "5">> >>]
    /\ s_i = 0
    /\ s_diff = <<>>
    /\ s_jobs = <<>>
    /\ s_pc = "idle"
    /\ IdleFilter
    /\ IdleExpand
    /\ IdleParse
    /\ IdleRest

\* qdata = get_qdata() (line 645 of info, line 256 of submit)
CallGetQdata ==
    /\ q_pc = "start"
    /\ q_pc' = (IF get_qdata(q_kind, q_dump).pc = "returned" THEN "parsed" ELSE get_qdata(q_kind, q_dump).pc)
    /\ q_qdata' = get_qdata(q_kind, q_dump).qdata
    /\ UNCHANGED <<q_kind, q_dump, q_count, s_in, s_i, s_diff, s_jobs, s_pc, fvars, evars, pvars, rvars>>

\* info, lines 644-687 after the call of get_qdata
InfoCount ==
    /\ q_pc = "parsed"
    /\ s_pc = "idle"
    /\ q_count' = state_count(q_qdata, s_in.user, s_in.datafiles)
    /\ q_pc' = "counted"
    /\ UNCHANGED <<q_kind, q_dump, q_qdata, s_in, s_i, s_diff, s_jobs, s_pc, fvars, evars, pvars, rvars>>

NextQueue == CallGetQdata \/ InfoCount

SpecQueue == InitQueue /\ [][NextQueue]_vars

\* ------------------------------------------------------------------------
\* submit (lines 183-393), one configuration file, --number and --test not
\* given
\* ------------------------------------------------------------------------

\* s_in.datafiles is sorted(psets.keys()) (line 246); s_in.disk says of each
\* key what line 297 finds: "ok" (the datafile exists) or "nofile"; s_in.out
\* is what CMD_ACC prints for a datafile, s_in.target is ACC and s_in.op
\* CMD_ACC_OP (with --ignore-acc none of them is looked at)
InitSubmit ==
    /\ q_kind \in {"bytes", "str"}
    /\ q_dump \in JobDumps({ <<"d", "1", ".", "h", "5">>, <<"d", "2", ".", "h", "5">>, <<"d", "3", ".", "h", "5">> }, { <<"u", "@", "h">> }, { <<"R">> })
    /\ q_pc = "start"
    /\ q_qdata = <<>>
    /\ q_count = <<>>
    /\ s_in \in [datafiles : {<< <<"d", "1", ".", "h", "5">>, <<"d", "2", ".", "h", "5">>, <<"d", "3", ".", "h", "5">> >>},
                 maxrun : {None, Some(1), Some(2)}, quiet : BOOLEAN, force : BOOLEAN,
                 disk : [1..3 -> {"ok", "nofile"}], ignoreacc : BOOLEAN,
                 out : { <<>>, <<"0", ".", "5">>, <<"2">> }, target : {Scale}, op : {"<=", ">"}]
    /\ s_in.ignoreacc => s_in.out = <<>> /\ s_in.op = "<="
    /\ s_i = 0
    /\ s_diff = None
    /\ s_jobs = <<>>
    /\ s_pc = "start"
    /\ IdleFilter
    /\ IdleExpand
    /\ IdleParse
    /\ IdleRest

\* lines 256-259: the queue snapshot, whose exception ends submit, and
\* diff_to_maxrun
SubmitStart ==
    /\ s_pc = "start"
    /\ q_pc # "start"
    /\ IF q_pc # "parsed"
       THEN s_pc' = q_pc /\ UNCHANGED <<s_i, s_diff>>
       ELSE /\ s_diff' = (IF s_in.maxrun = None THEN None
                          ELSE Some(s_in.maxrun[1] - count_running(s_in.datafiles, q_qdata)))
            /\ s_i' = 1
            /\ s_pc' = "loop"
    /\ UNCHANGED <<q_kind, q_dump, q_pc, q_qdata, q_count, s_in, s_jobs, fvars, evars, pvars, rvars>>

\* lines 262-383: one pass of the loop over the keys; submit_count is the
\* number of jobs handed to qsub
SubmitKey ==
    /\ s_pc = "loop"
    /\ s_i <= Len(s_in.datafiles)
    /\ IF s_diff # None /\ s_diff[1] # 0 /\ Len(s_jobs) >= s_diff[1] /\ ~s_in.quiet
       THEN s_pc' = "returned" /\ UNCHANGED <<s_i, s_jobs>>
       ELSE IF (\E j \in 1..Len(q_qdata) : Lookup(q_qdata[j].val, <<"J", "o", "b", "_", "N", "a", "m", "e">>).val = s_in.datafiles[s_i])
                \/ s_in.disk[s_i] = "nofile"
       THEN IF s_in.force
            THEN s_i' = s_i + 1 /\ UNCHANGED <<s_pc, s_jobs>>
            ELSE s_pc' = "SystemExit" /\ UNCHANGED <<s_i, s_jobs>>
       ELSE IF ~s_in.ignoreacc /\ SubmitFinished(s_in.out, <<"return">>, s_in.target, s_in.op) = "finished"
       THEN s_i' = s_i + 1 /\ UNCHANGED <<s_pc, s_jobs>>
       ELSE IF ~s_in.ignoreacc /\ SubmitFinished(s_in.out, <<"return">>, s_in.target, s_in.op) # "unfinished"
       THEN s_pc' = SubmitFinished(s_in.out, <<"return">>, s_in.target, s_in.op) /\ UNCHANGED <<s_i, s_jobs>>
       ELSE s_jobs' = Append(s_jobs, s_in.datafiles[s_i]) /\ s_i' = s_i + 1 /\ UNCHANGED s_pc
    /\ UNCHANGED <<q_kind, q_dump, q_pc, q_qdata, q_count, s_in, s_diff, fvars, evars, pvars, rvars>>

\* the loop is over (line 385)
SubmitEnd ==
    /\ s_pc = "loop"
    /\ s_i > Len(s_in.datafiles)
    /\ s_pc' = "returned"
    /\ UNCHANGED <<q_kind, q_dump, q_pc, q_qdata, q_count, s_in, s_i, s_diff, s_jobs, fvars, evars, pvars, rvars>>

NextSubmit == CallGetQdata \/ SubmitStart \/ SubmitKey \/ SubmitEnd

SpecSubmit == InitSubmit /\ [][NextSubmit]_vars

\* ------------------------------------------------------------------------
\* retry, step by step
\* ------------------------------------------------------------------------

MaxRetries == 2

\* retry(func, retries=n) for n = None and -1 <= n <= MaxRetries, and a func
\* whose calls raise or return in any order
InitRetry ==
    /\ r_in \in [retries : {None} \cup {Some(n) : n \in -1..MaxRetries},
                 outcomes : [1..(MaxRetries + 2) -> {"return", "raise"}]]
    /\ r_st = [tries |-> -1, calls |-> 0, sleeps |-> 0, pc |-> "loop", res |-> None]
    /\ a_in = <<>>
    /\ a_res = <<>>
    /\ w_in = <<>>
    /\ w_st = <<>>
    /\ IdleFilter
    /\ IdleExpand
    /\ IdleParse
    /\ IdleQueue

\* lines 1469-1483: the test of the loop, the call of func, and the handler
RetryIter ==
    /\ r_st # <<>>
    /\ r_st.pc = "loop"
    /\ r_st' = RetryPass(r_in.retries, r_in.outcomes, r_st)
    /\ UNCHANGED <<r_in, a_in, a_res, w_in, w_st, fvars, evars, pvars, qvars>>

NextRetry == RetryIter

SpecRetry == InitRetry /\ [][NextRetry]_vars

\* ------------------------------------------------------------------------
\* the decisions of submit, info and list about one parameter set
\* ------------------------------------------------------------------------

\* a_in.out is what CMD_ACC prints for the datafile, a_in.status whether the
\* command ends with status zero, a_in.target the ACC of the parameter set,
\* a_in.op the CMD_ACC_OP of the configuration
InitFinished ==
    /\ a_in \in [out : { <<>>, <<"x">>, <<"0">>, <<"0", ".", "5">>, <<"1">>, <<"2">> }, status : {"ok", "fails"},
                 target : {Scale \div 2, Scale}, op : Operators]
    /\ a_res = <<>>
    /\ r_in = <<>>
    /\ r_st = <<>>
    /\ w_in = <<>>
    /\ w_st = <<>>
    /\ IdleFilter
    /\ IdleExpand
    /\ IdleParse
    /\ IdleQueue

\* submit (lines 313-321), info with `t` in --output (lines 718-721) and
\* list with --filter f, F or r (lines 1053-1061) on the same parameter set
DecideFinished ==
    /\ a_in # <<>>
    /\ a_res = <<>>
    /\ a_res' = [submit |-> SubmitFinished(a_in.out, [k \in 1..4 |-> IF a_in.status = "ok" THEN "return" ELSE "raise"],
                                           a_in.target, a_in.op),
                 info |-> InfoFinished(a_in.out, [k \in 1..4 |-> IF a_in.status = "ok" THEN "return" ELSE "raise"],
                                       a_in.target),
                 list |-> ListFinished(a_in.out, [k \in 1..4 |-> IF a_in.status = "ok" THEN "return" ELSE "raise"],
                                       a_in.target)]
    /\ UNCHANGED <<a_in, r_in, r_st, w_in, w_st, fvars, evars, pvars, qvars>>

NextFinished == DecideFinished

SpecFinished == InitFinished /\ [][NextFinished]_vars

\* ------------------------------------------------------------------------
\* delete (lines 396-510), one configuration file
\* ------------------------------------------------------------------------

\* lines 451-462: qjobs, the job identifier under each job name, as kept by
\* --running and --queued; a later job of a name replaces an earlier one
qjobs(qdata, running, queued) ==
    LET State(e) == Lookup(e.val, <<"j", "o", "b", "_", "s", "t", "a", "t", "e">>).val
        Kept(e) ==
            ~((running \/ queued)
                 /\ ((State(e) = <<"R">> /\ ~running) \/ (State(e) = <<"Q">> /\ ~queued)))
        SetItem(d, k, v) ==
            IF HasKey(d, k) THEN [d EXCEPT ![KeyIndex(d, k)].val = v]
            ELSE Append(d, [key |-> k, val |-> v])
        Add(d, e) == IF Kept(e) THEN SetItem(d, Lookup(e.val, <<"J", "o", "b", "_", "N", "a", "m", "e">>).val, e.key) ELSE d
        Upto[n \in 0..Len(qdata)] == IF n = 0 THEN <<>> ELSE Add(Upto[n - 1], qdata[n])
    IN  Upto[Len(qdata)]

\* s_in.datafiles is jobnames (line 445); s_in.answer is what the user types
\* at a prompt; s_jobs are the job identifiers handed to qdel
InitDelete ==
    /\ q_kind \in {"bytes", "str"}
    /\ q_dump \in JobDumps({ <<"d", "1", ".", "h", "5">>, <<"x", "9">> }, { <<"u", "@", "h">> }, { <<"R">>, <<"Q">>, <<"H">>, <<>> })
    /\ q_pc = "start"
    /\ q_qdata = <<>>
    /\ q_count = <<>>
    /\ s_in \in [datafiles : {<< <<"d", "1", ".", "h", "5">>, <<"d", "2", ".", "h", "5">> >>}, running : BOOLEAN, queued : BOOLEAN,
                 test : BOOLEAN, force : BOOLEAN, answer : { <<>>, <<"y">>, <<"n">> }]
    /\ s_in.force => s_in.answer = <<>>
    /\ s_i = 0
    /\ s_diff = None
    /\ s_jobs = <<>>
    /\ s_pc = "start"
    /\ IdleFilter
    /\ IdleExpand
    /\ IdleParse
    /\ IdleRest

\* line 451: the queue information, whose exception ends delete
DeleteStart ==
    /\ s_pc = "start"
    /\ q_pc # "start"
    /\ IF q_pc # "parsed"
       THEN s_pc' = q_pc /\ UNCHANGED s_i
       ELSE s_i' = 1 /\ s_pc' = "loop"
    /\ UNCHANGED <<q_kind, q_dump, q_pc, q_qdata, q_count, s_in, s_diff, s_jobs, fvars, evars, pvars, rvars>>

\* lines 465-500: one pass of the loop over the job names
DeleteJob ==
    /\ s_pc = "loop"
    /\ s_i <= Len(s_in.datafiles)
    /\ IF ~HasKey(qjobs(q_qdata, s_in.running, s_in.queued), s_in.datafiles[s_i])
       THEN UNCHANGED s_jobs
       ELSE IF s_in.test
       THEN UNCHANGED s_jobs
       ELSE IF ~s_in.force /\ (s_in.answer = <<>> \/ ~StartsWith(<<"y", "e", "s">>, s_in.answer))
       THEN UNCHANGED s_jobs
       ELSE s_jobs' = Append(s_jobs, Lookup(qjobs(q_qdata, s_in.running, s_in.queued), s_in.datafiles[s_i]).val)
    /\ s_i' = s_i + 1
    /\ UNCHANGED <<q_kind, q_dump, q_pc, q_qdata, q_count, s_in, s_diff, s_pc, fvars, evars, pvars, rvars>>

\* the loop is over (line 503)
DeleteEnd ==
    /\ s_pc = "loop"
    /\ s_i > Len(s_in.datafiles)
    /\ s_pc' = "returned"
    /\ UNCHANGED <<q_kind, q_dump, q_pc, q_qdata, q_count, s_in, s_i, s_diff, s_jobs, fvars, evars, pvars, rvars>>

NextDelete == CallGetQdata \/ DeleteStart \/ DeleteJob \/ DeleteEnd

SpecDelete == InitDelete /\ [][NextDelete]_vars

\* ------------------------------------------------------------------------
\* create (lines 59-180), one configuration file
\* ------------------------------------------------------------------------

\* the states of the file system for one datafile: whether the datafile is
\* absent, a file or something else ("dir"), and whether its directory
\* exists as a directory, exists as a file, is absent, or whether the
\* datafile has no directory part at all ("none": os.path.dirname is '')
FileStates ==
    {[file |-> "absent", dir |-> "none"], [file |-> "file", dir |-> "none"],
     [file |-> "dir", dir |-> "none"], [file |-> "absent", dir |-> "dir"],
     [file |-> "file", dir |-> "dir"], [file |-> "dir", dir |-> "dir"],
     [file |-> "absent", dir |-> "file"], [file |-> "absent", dir |-> "absent"]}

\* s_in.fs[k] is the state of the file system for datafile k, each datafile
\* in a directory of its own; s_jobs are the changes made: the directories
\* created and the CMD_FILE commands executed
InitCreate ==
    /\ s_in \in [fs : [1..2 -> FileStates], test : BOOLEAN, quiet : BOOLEAN, bar : BOOLEAN,
                 verbose : BOOLEAN, force : BOOLEAN, overwrite : BOOLEAN]
    /\ s_i = 1
    /\ s_diff = None
    /\ s_jobs = <<>>
    /\ s_pc = "loop"
    /\ q_kind = "bytes"
    /\ q_dump = <<>>
    /\ q_pc = "idle"
    /\ q_qdata = <<>>
    /\ q_count = <<>>
    /\ IdleFilter
    /\ IdleExpand
    /\ IdleParse
    /\ IdleRest

\* lines 117-173: one pass of the loop over the datafiles; opts.quiet is
\* --quiet or --bar (lines 93-94)
CreateFile ==
    /\ s_pc = "loop"
    /\ s_i <= Len(s_in.fs)
    /\ IF s_in.fs[s_i].file = "file" /\ ((s_in.force /\ ~s_in.overwrite) \/ s_in.test)
       THEN s_i' = s_i + 1 /\ UNCHANGED <<s_pc, s_jobs>>
       ELSE IF s_in.fs[s_i].file = "file" /\ ~s_in.overwrite
       THEN s_pc' = "SystemExit" /\ UNCHANGED <<s_i, s_jobs>>
       ELSE IF s_in.fs[s_i].file = "dir"
       THEN s_pc' = "SystemExit" /\ UNCHANGED <<s_i, s_jobs>>
       ELSE IF ~s_in.test /\ s_in.fs[s_i].dir = "file"
       THEN s_pc' = "SystemExit" /\ UNCHANGED <<s_i, s_jobs>>
       ELSE IF ~s_in.test /\ s_in.fs[s_i].dir = "none"
       THEN s_pc' = "FileNotFoundError" /\ UNCHANGED <<s_i, s_jobs>>
       ELSE IF ~s_in.test /\ s_in.fs[s_i].dir = "absent"
       THEN /\ s_jobs' = s_jobs \o <<[op |-> "makedirs", k |-> s_i], [op |-> "call", k |-> s_i]>>
            /\ s_i' = s_i + 1
            /\ UNCHANGED s_pc
       ELSE IF s_in.test /\ ~(s_in.quiet \/ s_in.bar)
       THEN s_i' = s_i + 1 /\ UNCHANGED <<s_pc, s_jobs>>
       ELSE /\ s_jobs' = Append(s_jobs, [op |-> "call", k |-> s_i])
            /\ s_i' = s_i + 1
            /\ UNCHANGED s_pc
    /\ UNCHANGED <<q_kind, q_dump, q_pc, q_qdata, q_count, s_in, s_diff, fvars, evars, pvars, rvars>>

\* the loop is over (line 175)
CreateEnd ==
    /\ s_pc = "loop"
    /\ s_i > Len(s_in.fs)
    /\ s_pc' = "returned"
    /\ UNCHANGED <<q_kind, q_dump, q_pc, q_qdata, q_count, s_in, s_i, s_diff, s_jobs, fvars, evars, pvars, rvars>>

NextCreate == CreateFile \/ CreateEnd

SpecCreate == InitCreate /\ [][NextCreate]_vars

\* ------------------------------------------------------------------------
\* filter_psets with the pairs of the option string in another order
\* ------------------------------------------------------------------------

\* the same mapping filtered with an option string that has the pairs of
\* f_opts in some order
CallFilterSwapped ==
    /\ f_pc = "once"
    /\ \E order \in {p \in [1..Len(Split(f_opts, ",")) -> 1..Len(Split(f_opts, ","))] :
                        \A i, j \in DOMAIN p : i # j => p[i] # p[j]} :
          f_res2' = filter_psets(f_psets,
                                 Join([i \in DOMAIN order |-> Split(f_opts, ",")[order[i]]], <<",">>),
                                 f_pnames)
    /\ f_pc' = "swapped"
    /\ UNCHANGED <<f_pnames, f_written, f_psets, f_opts, f_res1, evars, pvars, qvars, rvars>>

NextOrder == CallFilter \/ CallFilterSwapped

SpecOrder == InitFilter /\ [][NextOrder]_vars

\* ------------------------------------------------------------------------
\* The working directory in create, submit, delete, info and list
\* ------------------------------------------------------------------------

MaxConfs == 2

\* CmdFinally without the os.chdir(cwd)
CmdFinallyStays ==
    /\ w_st # <<>>
    /\ w_st.pc = "finally"
    /\ w_st' = [w_st EXCEPT !.pc = w_st.exit]
    /\ UNCHANGED <<w_in, r_in, r_st, a_in, a_res, fvars, evars, pvars, qvars>>

\* a command, called in the directory w_in.home with up to MaxConfs
\* configuration files. w_in.confs[k] is what happens in configuration k:
\* "parse" (parse_conf raises or exits), "filter" (compute_psets or
\* filter_psets raises or exits), "chdir" (os.chdir(conf['WORKDIR']) raises),
\* and after the change into WORKDIR "ok" (the loop body ends), "exit"
\* (sys.exit in the loop), "interrupt" (KeyboardInterrupt) or "error"
\* (another exception, as the one of get_qdata in submit and delete).
\* w_in.queue is what get_qdata does where info and list call it, before
\* their try; w_in.strict is --strict of info.
InitCommand ==
    /\ w_in \in [cmd : {"create", "submit", "delete", "info", "list"},
                 home : { <<"h", "o", "m", "e">> },
                 confs : UNION {[1..n -> {"parse", "filter", "chdir", "ok", "exit", "interrupt", "error"}] :
                                   n \in 0..MaxConfs},
                 queue : {"ok", "raise"}, strict : BOOLEAN]
    /\ w_in.cmd \notin {"info", "list"} => w_in.queue = "ok"
    /\ w_in.cmd # "info" => ~w_in.strict
    /\ w_st = [cwd |-> w_in.home, saved |-> <<>>, pc |-> "entry", k |-> 0, exit |-> ""]
    /\ r_in = <<>>
    /\ r_st = <<>>
    /\ a_in = <<>>
    /\ a_res = <<>>
    /\ IdleFilter
    /\ IdleExpand
    /\ IdleParse
    /\ IdleQueue

\* cwd = os.getcwd() (lines 99, 234, 438, 628, 933) and what info (lines
\* 630-649) and list (lines 935-949) do before their try: an exception of
\* get_qdata there leaves the command at once
CmdEnter ==
    /\ w_st # <<>>
    /\ w_st.pc = "entry"
    /\ w_st' = [w_st EXCEPT !.saved = w_st.cwd,
                            !.pc = IF w_in.queue = "raise" THEN "exception" ELSE "try",
                            !.k = 1]
    /\ UNCHANGED <<w_in, r_in, r_st, a_in, a_res, fvars, evars, pvars, qvars>>

\* one pass of the loop over the configuration files, in the try (lines
\* 103-173, 242-389, 442-500, 655-779, 952-1140): the exception of parse_conf
\* is caught by info without --strict (lines 656-661); os.chdir is at lines
\* 110, 252, 448, 670 and 964; KeyboardInterrupt is caught after the loop
\* (lines 175, 391, 503, 778, 1141) and the command goes on
CmdConf ==
    /\ w_st # <<>>
    /\ w_st.pc = "try"
    /\ IF w_st.k > Len(w_in.confs)
       THEN w_st' = [w_st EXCEPT !.pc = "finally", !.exit = "returned"]
       ELSE IF w_in.confs[w_st.k] = "parse" /\ w_in.cmd = "info" /\ ~w_in.strict
       THEN w_st' = [w_st EXCEPT !.k = @ + 1]
       ELSE IF w_in.confs[w_st.k] \in {"parse", "filter", "chdir"}
       THEN w_st' = [w_st EXCEPT !.pc = "finally", !.exit = "exception"]
       ELSE IF w_in.confs[w_st.k] = "ok"
       THEN w_st' = [w_st EXCEPT !.cwd = <<"W", "O", "R", "K", "D", "I", "R">> \o NatStr(w_st.k), !.k = @ + 1]
       ELSE IF w_in.confs[w_st.k] = "exit"
       THEN w_st' = [w_st EXCEPT !.cwd = <<"W", "O", "R", "K", "D", "I", "R">> \o NatStr(w_st.k), !.pc = "finally", !.exit = "SystemExit"]
       ELSE IF w_in.confs[w_st.k] = "interrupt"
       THEN w_st' = [w_st EXCEPT !.cwd = <<"W", "O", "R", "K", "D", "I", "R">> \o NatStr(w_st.k), !.pc = "finally", !.exit = "returned"]
       ELSE w_st' = [w_st EXCEPT !.cwd = <<"W", "O", "R", "K", "D", "I", "R">> \o NatStr(w_st.k), !.pc = "finally", !.exit = "exception"]
    /\ UNCHANGED <<w_in, r_in, r_st, a_in, a_res, fvars, evars, pvars, qvars>>

\* finally: os.chdir(cwd) (lines 178-180, 391-393, 508-510, 781-783,
\* 1144-1146), and the command ends as the try did
CmdFinally ==
    /\ w_st # <<>>
    /\ w_st.pc = "finally"
    /\ w_st' = [w_st EXCEPT !.cwd = w_st.saved, !.pc = w_st.exit]
    /\ UNCHANGED <<w_in, r_in, r_st, a_in, a_res, fvars, evars, pvars, qvars>>

NextCommand == CmdEnter \/ CmdConf \/ CmdFinally

SpecCommand == InitCommand /\ [][NextCommand]_vars
\* ------------------------------------------------------------------------
\* Claims about filter_psets
\* ------------------------------------------------------------------------

\* the constraints of the option string, as parsed
Constraints == FilterParse(Split(Strip(f_opts), ","), 1, <<>>, f_pnames)

\* what it means for a parameter set to satisfy a constraint: a closed
\* interval on the sides that are bounded, or equal canonical strings
Satisfies(pset, p) ==
    IF p.tuple
    THEN /\ (p.val1 # None => p.val1[1] <= pset[p.key])
         /\ (p.val2 # None => pset[p.key] <= p.val2[1])
    ELSE PyStr(pset[p.key]) = PyStr(p.val1[1])

SatisfiesAll(pset, fp) == \A i \in 1..Len(fp) : Satisfies(pset, fp[i])

\* C2: filter_psets returns exactly the entries of the input mapping that
\* satisfy every constraint of a well-formed option string (intervals closed
\* on the bounded sides), and drops the others without an error.
C2_FilterReturnsExactlySatisfying ==
    (f_pc # "start" /\ f_pnames # <<>> /\ Constraints.status = "ok")
        => /\ f_res1.status = "returned"
           /\ f_res1.psets = SelectSeq(f_psets,
                                 LAMBDA e : SatisfiesAll(e.pset, Constraints.fp))

\* C3: filtering is idempotent: for every mapping and every valid option
\* string, filtering the filtered mapping again returns the same mapping.
C3_FilterIdempotent ==
    (f_pc = "twice" /\ f_pnames # <<>> /\ Constraints.status = "ok")
        => /\ f_res1.status = "returned"
           /\ f_res2.status = "returned"
           /\ f_res2.psets = f_res1.psets

\* Idempotence where the first call returns: the second call returns the
\* same mapping.
FilterIdempotentWhenReturned ==
    (f_pc = "twice" /\ f_res1.status = "returned")
        => (f_res2.status = "returned" /\ f_res2.psets = f_res1.psets)

\* the non-empty pairs of an option string
PairsOf(opts) == SelectSeq([i \in 1..Len(Split(Strip(opts), ",")) |->
                               Strip(Split(Strip(opts), ",")[i])],
                           LAMBDA q : q # <<>>)

PairName(pair) == Strip(Split1(pair, "=")[1])

PairValue(pair) == Strip(Split1(pair, "=")[2])

NotANumber(text) == ~PyFloat(text).ok

\* a malformed option string: a pair that is not name=value, a name in two
\* pairs, an undeclared name, more than one colon, a bound or value that is
\* not a number
MalformedPair(pair, pnames) ==
    \/ Count(pair, "=") # 1
    \/ ~InSeq(PairName(pair), pnames)
    \/ Count(PairValue(pair), ":") > 1
    \/ /\ Count(PairValue(pair), ":") = 0
       /\ NotANumber(PairValue(pair))
    \/ /\ Count(PairValue(pair), ":") = 1
       /\ \E k \in 1..2 :
             LET b == Strip(Split(PairValue(pair), ":")[k])
             IN  b # <<>> /\ NotANumber(b)

Malformed(opts, pnames) ==
    LET ps == PairsOf(opts)
    IN  \/ \E i \in 1..Len(ps) : MalformedPair(ps[i], pnames)
        \/ \E i, j \in 1..Len(ps) :
              /\ i < j
              /\ Count(ps[i], "=") = 1
              /\ Count(ps[j], "=") = 1
              /\ PairName(ps[i]) = PairName(ps[j])

\* C4: filter_psets fails for every malformed option string, whatever the
\* list of declared names is, the empty list included.
C4_MalformedAlwaysFails ==
    (f_pc # "start" /\ Malformed(f_opts, f_pnames)) => f_res1.status # "returned"

\* With a non-empty list of declared names every malformed option string
\* fails with SystemExit.
MalformedFailsWhenNamesDeclared ==
    (f_pc # "start" /\ f_pnames # <<>> /\ Malformed(f_opts, f_pnames))
        => f_res1.status = "SystemExit"

\* the option string is one exact constraint (no interval)
OneExact == Constraints.status = "ok" /\ Len(Constraints.fp) = 1 /\ ~Constraints.fp[1].tuple

\* the literal of the single constraint, as written in the option string
ExactLiteral == PairValue(PairsOf(f_opts)[1])

\* the literal of entry i's value of the constrained parameter, as written
\* in the configuration
WrittenLiteral(i) ==
    IF Constraints.fp[1].key = nA THEN f_written[i].text.A ELSE f_written[i].text.B

Lit1 == <<"1">>
Lit10 == <<"1", ".", "0">>

\* C5 (as claimed): differently formatted literals of the same number do not
\* match: a constraint written 1 does not keep a parameter written 1.0, and
\* vice versa.
C5_DifferentlyWrittenNeverMatch ==
    (f_pc # "start" /\ f_pnames # <<>> /\ OneExact /\ f_res1.status = "returned")
        => \A i \in 1..Len(f_psets) :
              ({ExactLiteral, WrittenLiteral(i)} = {Lit1, Lit10})
                  => ~HasKey(f_res1.psets, f_psets[i].key)

\* C5 (amended): an exact constraint keeps a parameter set iff the canonical
\* string of the float of the parameter's literal equals the canonical string
\* of the float of the constraint's literal; both literals go through float()
\* first, so 1 and 1.0 match each other.
C5_ExactMatchesAfterFloat ==
    (f_pc # "start" /\ f_pnames # <<>> /\ OneExact)
        => /\ f_res1.status = "returned"
           /\ \A i \in 1..Len(f_psets) :
                 /\ HasKey(f_res1.psets, f_psets[i].key)
                      <=> (PyStr(PyFloat(WrittenLiteral(i)).v)
                              = PyStr(PyFloat(ExactLiteral).v))
                 /\ ({ExactLiteral, WrittenLiteral(i)} = {Lit1, Lit10})
                      => HasKey(f_res1.psets, f_psets[i].key)

\* a constraint written 1 has kept a parameter written 1.0
C5_Witness ==
    /\ f_pc # "start" /\ f_pnames # <<>> /\ OneExact
    /\ ExactLiteral = Lit1
    /\ \E i \in 1..Len(f_psets) :
          WrittenLiteral(i) = Lit10 /\ HasKey(f_res1.psets, f_psets[i].key)

\* ------------------------------------------------------------------------
\* Claims about compute_psets
\* ------------------------------------------------------------------------

\* what each of the six operators means
OpHolds(a, b, op) ==
    CASE op = "<" -> a < b
      [] op = ">" -> a > b
      [] op = "<=" -> a <= b
      [] op = ">=" -> a >= b
      [] op = "==" -> a = b
      [] op = "!=" -> a # b

\* the entry the current pass of the inner loop builds
CurrentNew == NewEntry(e_conf, e_conf.pspaces[e_bi], Combos(e_conf, e_bi)[e_ci]).entry

\* a pass of the inner loop that went through
CombinationDone == e_pc = "loop" /\ e_pc' = "loop" /\ e_ci' = e_ci + 1

\* the collision rule on one pass
CollisionRuleOnStep ==
    HasKey(e_psets, CurrentNew.key)
        => IF OpHolds(Lookup(e_psets, CurrentNew.key).pset[nACC],
                      CurrentNew.pset[nACC], e_conf.CMD_ACC_OP)
           THEN e_psets' = e_psets
           ELSE /\ Len(e_psets') = Len(e_psets)
                /\ \A i \in 1..Len(e_psets) :
                      e_psets'[i] = IF e_psets[i].key = CurrentNew.key
                                    THEN CurrentNew ELSE e_psets[i]

\* C1: whenever a newly built parameter set has a key that is already in the
\* result, the existing entry's accuracy is compared with the new one's by
\* the configuration's operator: if the comparison holds the mapping is left
\* as it is, otherwise the new entry replaces the existing one under that
\* key (and no other entry changes).
C1_CollisionRule == [][CombinationDone => CollisionRuleOnStep]_vars

\* a run in which one collision kept the existing entry and another replaced it
C1_Witness == e_pc = "returned" /\ e_seen = {"kept", "replaced"}

\* ------------------------------------------------------------------------
\* Claims about parse_conf
\* ------------------------------------------------------------------------

\* a step that reads a line, and the step after the last line
ReadsLine == p_pc = "loop" /\ p_lind' = p_lind + 1

Ends == p_pc = "loop" /\ p_lind' = p_lind /\ p_pc' # "loop"

\* the parse has failed with a message that names the line read last
FailedAtLine(texts) ==
    p_pc = "SystemExit" /\ p_msg.line = p_lind /\ p_msg.text \in texts

\* the step fails with a message that names the line it reads
FailsAtLine(texts) ==
    p_pc' = "SystemExit" /\ p_msg'.line = p_lind' /\ p_msg'.text \in texts

\* malformed directives: an unknown keyword at top level and in a block, a
\* PARAM line with a range that is no number, an ACC line with a value that
\* is no number
MalformedLines == {Ln.Unknown, Ln.UnknownIn, Ln.ParamBad, Ln.AccBad}

\* C6: parse_conf fails with a syntax error that names the line for every
\* malformed directive, at top level and in a block: once such a line is
\* read the parse has failed at that line; it neither goes on nor returns a
\* configuration nor ends in another way.
C6_MalformedDirectiveIsSyntaxError ==
    p_line \in MalformedLines => FailedAtLine({"syntax error", "unexpected indent"})

\* What holds of them: an unknown keyword at top level and an ACC line with
\* a value that is no number fail with a message that names the line.
UnknownAtTopLevelAndBadAccFail ==
    p_line \in {Ln.Unknown, Ln.AccBad} => FailedAtLine({"syntax error", "unexpected indent"})

\* the names of a sequence as a set
NameSet(names) == {names[i] : i \in 1..Len(names)}

\* the names a block has value lists for
BlockNames(pspace) == {pspace.values[k].key : k \in 1..Len(pspace.values)}

\* the post-parse conditions on a configuration
Complete(conf) ==
    /\ \A b \in 1..Len(conf.pspaces) :
          /\ BlockNames(conf.pspaces[b]) \subseteq NameSet(conf.pnames)
          /\ NameSet(conf.pnames) \subseteq BlockNames(conf.pspaces[b])
          /\ Cardinality(BlockNames(conf.pspaces[b])) = Len(conf.pspaces[b].values)
          /\ Len(conf.pspaces[b].acc) = 1
    /\ conf.CMD_ACC # <<>>
    /\ conf.CMD_EXEC # <<>>
    /\ conf.CMD_FILE # <<>>
    /\ conf.CMD_CHECKFILE # <<>>
    /\ conf.DATAFILE # <<>>

\* C7: every configuration parse_conf returns is complete (the names used in
\* a block are declared, every block has a value list for every declared
\* name and exactly one accuracy, the five templates are non-empty) in
\* whatever order the lines came, and a file whose configuration is not
\* complete ends in an error and returns nothing.
C7_ReturnedConfigurationIsComplete ==
    [][Ends => /\ (p_pc' = "returned" => Complete(p_conf'))
               /\ (~Complete(p_conf) => p_pc' \in {"SystemExit", "TypeError"})]_vars

\* a configuration is returned for a file whose block comes before the
\* declaration of its parameter
C7_Witness ==
    /\ p_pc = "returned"
    /\ p_line = Ln.DeclareA
    /\ p_conf.pnames = <<nA>>
    /\ Len(p_conf.pspaces) = 1
    /\ BlockNames(p_conf.pspaces[1]) = {nA}

\* the operator each CMD_ACC_OP line of the model names; the lines after
\* these name none
NamedOperators == <<"<", ">", "<=", ">=", "==", "!=">>

OpLineIndex(line) == CHOOSE i \in 1..Len(OpLines) : OpLines[i] = line

IsOpLine(line) == \E i \in 1..Len(OpLines) : OpLines[i] = line

\* a CMD_ACC_OP line with one of the six operators sets it, with any other
\* token it fails the parse at that line
OperatorLineRule(i) ==
    IF i <= Len(NamedOperators)
    THEN p_pc' = "loop" => p_conf'.CMD_ACC_OP = NamedOperators[i]
    ELSE FailsAtLine({"unknown comparison operator", "already specified"})

\* no other line sets the operator, and only a WORKDIR line the directory
OtherLineRule ==
    p_pc' = "loop"
        => /\ p_conf'.CMD_ACC_OP = p_conf.CMD_ACC_OP
           /\ (p_line' \notin {Ln.Workdir, Ln.WorkdirRel} => p_conf'.WORKDIR = p_conf.WORKDIR)

\* the returned configuration has the operator and directory given, or the
\* defaults <= and the home directory
DefaultsRule ==
    p_pc' = "returned"
        => /\ p_conf'.CMD_ACC_OP \in {NamedOperators[i] : i \in 1..Len(NamedOperators)}
           /\ p_conf'.CMD_ACC_OP = (IF p_conf.CMD_ACC_OP = "" THEN "<=" ELSE p_conf.CMD_ACC_OP)
           /\ p_conf'.WORKDIR # <<>>
           /\ p_conf'.WORKDIR = (IF p_conf.WORKDIR = <<>> THEN Home ELSE p_conf.WORKDIR)

\* C8: in every configuration returned the comparison operator is one of
\* the six and the working directory is non-empty; a file without a
\* CMD_ACC_OP line gets <=, a file without a WORKDIR line the home
\* directory, and a CMD_ACC_OP line with any other token fails the parse.
C8_OperatorAndWorkdir ==
    [][/\ (ReadsLine /\ IsOpLine(p_line')) => OperatorLineRule(OpLineIndex(p_line'))
       /\ (ReadsLine /\ ~IsOpLine(p_line')) => OtherLineRule
       /\ Ends => DefaultsRule]_vars

\* a file of the five templates only is returned with both defaults
C8_Witness ==
    /\ p_pc = "returned"
    /\ p_lind = Len(TemplateLines)
    /\ p_conf.CMD_ACC_OP = "<="
    /\ p_conf.WORKDIR = Home

nC == <<"C">>

\* the names each DECLARE line of the model declares, in its order
DeclareNames ==
    << [line |-> Ln.DeclareA, names |-> <<nA>>],
       [line |-> Ln.DeclareB, names |-> <<nB>>],
       [line |-> Ln.DeclareAB, names |-> <<nA, nB>>],
       [line |-> Ln.DeclareBA, names |-> <<nB, nA>>],
       [line |-> Ln.DeclareAA, names |-> <<nA, nA>>],
       [line |-> Ln.DeclareC, names |-> <<nC>>] >>

IsDeclareLine(line) == \E i \in 1..Len(DeclareNames) : DeclareNames[i].line = line

NamesOf(line) == DeclareNames[CHOOSE i \in 1..Len(DeclareNames) : DeclareNames[i].line = line].names

\* no name twice
Distinct(names) == Cardinality(NameSet(names)) = Len(names)

\* a DECLARE line of new names appends them in their order, one with a name
\* that is declared already (before or on the line) fails at that line
DeclareRule(names) ==
    IF Distinct(p_conf.pnames \o names)
    THEN p_pc' = "loop" /\ p_conf'.pnames = p_conf.pnames \o names
    ELSE FailsAtLine({"already declared"})

\* C9: DECLARE is cumulative and rejects duplicates: each DECLARE line
\* appends its names to pnames in the order of declaration, a name declared
\* a second time (on the same or a later line) fails the parse at that line,
\* nothing else changes pnames, and so pnames never holds a name twice.
C9_DeclareCumulative ==
    [][/\ (ReadsLine /\ IsDeclareLine(p_line')) => DeclareRule(NamesOf(p_line'))
       /\ (ReadsLine /\ ~IsDeclareLine(p_line') /\ p_pc' = "loop")
             => p_conf'.pnames = p_conf.pnames
       /\ (Ends /\ p_pc' = "returned") => p_conf'.pnames = p_conf.pnames
       /\ p_pc' \in {"loop", "returned"} => Distinct(p_conf'.pnames)]_vars

\* three names declared on two lines are returned in the order of declaration
C9_Witness ==
    p_pc = "returned" /\ p_line = Ln.DeclareBA /\ p_conf.pnames = <<nC, nB, nA>>

\* the indentation each line of the model is written with
WrittenIndent(line) ==
    IF line \in {Ln.ParamA, Ln.Acc, Ln.ParamBad, Ln.AccBad, Ln.UnknownIn} THEN 2
    ELSE IF line = Ln.AccDeep THEN 4
    ELSE 0

\* PSPACE: enters the context and appends a new block
EnterRule ==
    /\ p_pc' = "loop"
    /\ p_context' = "PSPACE"
    /\ p_indent' = None
    /\ p_conf'.pspaces = Append(p_conf.pspaces, [values |-> <<>>, acc |-> None])

\* a blank line changes nothing
BlankRule ==
    p_pc' = "loop" /\ p_context' = p_context /\ p_indent' = p_indent /\ p_conf' = p_conf

\* the blocks before the last are left alone and no block is added
AttachesToLast ==
    /\ Len(p_conf'.pspaces) = Len(p_conf.pspaces)
    /\ \A b \in 1..(Len(p_conf.pspaces) - 1) : p_conf'.pspaces[b] = p_conf.pspaces[b]
    /\ p_line' \in {Ln.Acc, Ln.AccDeep} =>
          /\ p_conf.pspaces[Len(p_conf.pspaces)].acc = None
          /\ p_conf'.pspaces[Len(p_conf.pspaces)].acc # None
    /\ p_line' = Ln.ParamA =>
          p_conf'.pspaces[Len(p_conf.pspaces)].values
              = Append(p_conf.pspaces[Len(p_conf.pspaces)].values,
                       [key |-> nA, list |-> <<Scale>>])

\* an indented line in the context: the first fixes the indent, a later one
\* with another indent fails at that line, PARAM and ACC go to the last block
IndentedRule(n) ==
    IF p_indent # None /\ p_indent # <<n>>
    THEN FailsAtLine({"unexpected indent"})
    ELSE p_pc' = "loop" => (p_context' = "PSPACE" /\ p_indent' = <<n>> /\ AttachesToLast)

\* a line that is not indented leaves the context and is read as at top level
LeaveRule(r) ==
    /\ p_pc' = r.pc
    /\ p_msg' = r.msg
    /\ p_conf' = r.conf
    /\ p_context' = r.context
    /\ p_indent' = r.indent
    /\ (p_pc' = "loop" /\ p_line' # Ln.Pspace) => (p_context' = "None" /\ p_indent' = None)

\* C10: the block context follows the protocol: PSPACE: at top level enters
\* the context and appends a block; the first non-blank line in the block
\* fixes the indent; a later non-blank line of the block with another indent
\* fails at that line; the first non-blank line that is not indented leaves
\* the block, resets the indent and is read as a top-level line; PARAM and
\* ACC lines go to the block opened last.
C10_BlockProtocol ==
    [][ReadsLine =>
          /\ p_line' = Ln.Pspace => EnterRule
          /\ p_line' = Ln.Blank => BlankRule
          /\ (p_context = "PSPACE" /\ WrittenIndent(p_line') > 0)
                => IndentedRule(WrittenIndent(p_line'))
          /\ (p_context = "PSPACE" /\ WrittenIndent(p_line') = 0 /\ p_line' # Ln.Blank)
                => LeaveRule(LineStep(p_conf, "None", None, p_lind, Info[p_line']))
          /\ (p_context = "None" /\ WrittenIndent(p_line') > 0)
                => FailsAtLine({"syntax error"})]_vars

\* two blocks, the first indented by two and the second by four, each with
\* its own accuracy
C10_Witness ==
    /\ p_pc = "returned"
    /\ p_line = Ln.AccDeep
    /\ Len(p_conf.pspaces) = 2
    /\ \A b \in 1..2 : p_conf.pspaces[b].acc # None


\* ------------------------------------------------------------------------
\* Claims about ranges and annotations in parse_conf
\* ------------------------------------------------------------------------

\* the numbers start, start + step, start + 2 step, ... that are less than
\* stop
HalfOpen(start, stop, step) ==
    LET Length ==
            CHOOSE k \in 0..(stop + 1) :
                /\ start + k * step >= stop
                /\ k = 0 \/ start + (k - 1) * step < stop
    IN  [i \in 1..Length |-> (start + (i - 1) * step) * Scale]

\* the values the ranges stand for, one after the other
RECURSIVE Expansion(_)
Expansion(ranges) ==
    IF ranges = <<>> THEN <<>>
    ELSE (IF ranges[1].kind = "literal" THEN <<ranges[1].start * Scale>>
          ELSE HalfOpen(ranges[1].start, ranges[1].stop, ranges[1].step))
             \o Expansion(Tail(ranges))

\* ranges of the three forms: a literal, start:stop and start:stop:step
ThreeForms(ranges) ==
    \A i \in 1..Len(ranges) : ranges[i].kind \in {"literal", "pair", "triple"}

\* C11: a PARAM line whose ranges are literals, start:stop and
\* start:stop:step with a positive step stores, for its name, the
\* concatenation in the order written of what the ranges stand for: a
\* literal itself, and a range the numbers start, start + step, ... that are
\* less than stop (step 1 when none is written).
C11_RangeExpansionHalfOpen ==
    [][\A rf \in RangeFiles :
          (ReadsLine /\ p_line' = rf.line /\ ThreeForms(rf.ranges))
              => /\ p_pc' = "loop"
                 /\ p_conf'.pspaces =
                        <<[values |-> <<[key |-> nA, list |-> Expansion(rf.ranges)]>>,
                           acc |-> None]>>]_vars

\* PARAM A 0:5,1:10:3 was read and the values are 0 1 2 3 4 and 1 4 7
C11_Witness ==
    /\ p_line = <<" ", " ", "P", "A", "R", "A", "M", " ", "A", " ", "0", ":", "5", ",", "1", ":", "1", "0", ":", "3", "\n">>
    /\ p_pc = "loop"
    /\ Len(p_conf.pspaces) = 1
    /\ p_conf.pspaces[1].values =
           <<[key |-> nA,
              list |-> <<0, 1 * Scale, 2 * Scale, 3 * Scale, 4 * Scale,
                         1 * Scale, 4 * Scale, 7 * Scale>>]>>

\* the step reads a PARAM line of RangeFiles that has a range of the kind
ReadsRangeOfKind(kind) ==
    /\ ReadsLine
    /\ \E rf \in RangeFiles :
          /\ p_line' = rf.line
          /\ \E i \in 1..Len(rf.ranges) : rf.ranges[i].kind = kind

\* C12 as stated: a PARAM line with a range of two colons is rejected with
\* a syntax error that names the line, and no configuration is returned.
C12_TwoColonsRejected ==
    [][ReadsRangeOfKind("triple") => FailsAtLine({"syntax error"})]_vars

\* C12: a PARAM line with a range of more than two colons is rejected with
\* a syntax error that names the line, and no configuration is returned; a
\* range of two colons is start:stop:step.
C12_ThreeColonsRejected ==
    [][ReadsRangeOfKind("quad") => FailsAtLine({"syntax error"})]_vars

\* PARAM A 1:5:1:1 was read as line 8 and the parse has failed there
C12_Witness ==
    /\ p_line = <<" ", " ", "P", "A", "R", "A", "M", " ", "A", " ", "1", ":", "5", ":", "1", ":", "1", "\n">>
    /\ p_pc = "SystemExit"
    /\ p_msg = [text |-> "syntax error", line |-> 8]

\* lines with an annotation at their end, each with the same line without it
NotePairs ==
    {[with |-> Ln.DeclareANote, without |-> Ln.DeclareA],
     [with |-> Ln.PspaceNote, without |-> Ln.Pspace],
     [with |-> Ln.ParamANote, without |-> Ln.ParamA],
     [with |-> Ln.AccNote, without |-> Ln.Acc]}

\* the state after the step, as the outcome of a pass of the loop
OutcomeOfStep ==
    [pc |-> p_pc', msg |-> p_msg', conf |-> p_conf', context |-> p_context',
     indent |-> p_indent']

\* the step reads an annotation line and ignores it: the parse goes on with
\* the configuration and the context it had, or the indent of the line is
\* not the indent of the block
IgnoresAnnotationLine ==
    (ReadsLine /\ p_line' \in {Ln.Comment, Ln.CommentIn})
        => \/ p_pc' = "loop" /\ p_conf' = p_conf /\ p_context' = p_context
           \/ FailsAtLine({"unexpected indent"})

\* the step reads a line with an annotation at its end as it would read the
\* line without it
ReadsAsWithoutNote ==
    \A pair \in NotePairs :
        (ReadsLine /\ p_line' = pair.with)
            => OutcomeOfStep = LineStep(p_conf, p_context, p_indent, p_lind, Info[pair.without])

\* C13: annotations are stripped in both contexts: a line whose first
\* non-blank character is # is ignored, and a directive with an annotation
\* at its end, PARAM and ACC in a block included, is parsed as the same line
\* without it.
C13_AnnotationsStrippedInBothContexts ==
    [][IgnoresAnnotationLine /\ ReadsAsWithoutNote]_vars

\* What holds of it: at top level annotation lines are ignored and the
\* annotation at the end of a directive is cut off.
AnnotationsStrippedAtTopLevel ==
    [][p_context = "None" => IgnoresAnnotationLine /\ ReadsAsWithoutNote]_vars

\* ------------------------------------------------------------------------
\* Claims about the mapping compute_psets returns
\* ------------------------------------------------------------------------

\* the cartesian product of the lists, the last list varying fastest
RECURSIVE Cartesian(_)
Cartesian(lists) ==
    LET Prefixed(xs, rest) ==
            [k \in 1..(Len(xs) * Len(rest)) |->
                <<xs[((k - 1) \div Len(rest)) + 1]>> \o rest[((k - 1) % Len(rest)) + 1]]
    IN  IF lists = <<>> THEN << <<>> >> ELSE Prefixed(lists[1], Cartesian(Tail(lists)))

\* the tuples of block b of the configuration in the order of the declared
\* parameters, each with its block
TuplesOfBlock(conf, b) ==
    LET Tagged(tuples) == [k \in 1..Len(tuples) |-> [block |-> b, tuple |-> tuples[k]]]
    IN  Tagged(Cartesian([i \in 1..Len(conf.pnames) |->
                             conf.pspaces[b].values[conf.pnames[i]]]))

\* the tuples of the blocks from block b on, block after block
RECURSIVE TuplesFrom(_, _)
TuplesFrom(conf, b) ==
    IF b > Len(conf.pspaces) THEN <<>> ELSE TuplesOfBlock(conf, b) \o TuplesFrom(conf, b + 1)

\* the declared parameters of a tuple, by name
ParamsOf(conf, tuple) ==
    [n \in {conf.pnames[i] : i \in 1..Len(conf.pnames)} |->
        tuple[CHOOSE i \in 1..Len(conf.pnames) : conf.pnames[i] = n]]

\* the declared parameters of an entry of the mapping
OwnParams(conf, entry) ==
    [n \in {conf.pnames[i] : i \in 1..Len(conf.pnames)} |-> entry.pset[n]]

\* the name rendered from parameter values: the DATAFILE template with the
\* rounded DATAFILE_VALUES and the suffix
Rendered(conf, params) == name_datafile(conf, params).s

\* the entry assigns every declared parameter a value of block b's list for
\* it and carries b's accuracy
ComesFromBlock(conf, entry, b) ==
    /\ \A i \in 1..Len(conf.pnames) :
          InSeq(entry.pset[conf.pnames[i]], conf.pspaces[b].values[conf.pnames[i]])
    /\ entry.pset[nACC] = conf.pspaces[b].acc

\* the first occurrences of the elements of a sequence, in their order
RECURSIVE FirstOccurrences(_, _)
FirstOccurrences(s, seen) ==
    IF s = <<>> THEN <<>>
    ELSE IF InSeq(s[1], seen) THEN FirstOccurrences(Tail(s), seen)
    ELSE <<s[1]>> \o FirstOccurrences(Tail(s), Append(seen, s[1]))

\* the keys of the tuples of all blocks, in block order and product order
KeysInOrder(conf, key(_, _)) ==
    LET Keys(tuples) == [k \in 1..Len(tuples) |-> key(conf, ParamsOf(conf, tuples[k].tuple))]
    IN  FirstOccurrences(Keys(TuplesFrom(conf, 1)), <<>>)

\* the sum over the blocks from b on of the product of the lengths of the
\* value lists
RECURSIVE SumOfProducts(_, _)
SumOfProducts(conf, b) ==
    IF b > Len(conf.pspaces) THEN 0
    ELSE Len(TuplesOfBlock(conf, b)) + SumOfProducts(conf, b + 1)

\* the returned mapping, every entry under the key key(conf, its parameters)
MappingIsFromBlocks(key(_, _)) ==
    e_pc = "returned"
        => /\ \A i \in 1..Len(e_psets) :
                 /\ \E b \in 1..Len(e_conf.pspaces) : ComesFromBlock(e_conf, e_psets[i], b)
                 /\ e_psets[i].key = key(e_conf, OwnParams(e_conf, e_psets[i]))
           /\ [i \in 1..Len(e_psets) |-> e_psets[i].key] = KeysInOrder(e_conf, key)
           /\ Cardinality({e_psets[i].key : i \in 1..Len(e_psets)}) = Len(e_psets)
           /\ Len(e_psets) <= SumOfProducts(e_conf, 1)

\* the rendered name with a leading ~ replaced by the home directory
ExpandedName(conf, params) == Expanduser(Rendered(conf, params))

\* C14 as stated: every entry of the returned mapping comes from one block
\* (a value of the block's list for every declared parameter, the block's
\* accuracy) and is stored under the name rendered from its own parameter
\* values; the keys are in the order of the blocks and of the cartesian
\* product, they are distinct, and there are at most as many as the sum over
\* the blocks of the products of the list lengths.
C14_EntriesUnderRenderedName == MappingIsFromBlocks(Rendered)

\* C14: the same with the key the rendered name after the expansion of a
\* leading ~ to the home directory; the rendered name itself is the FILE of
\* the entry.
C14_EntriesUnderExpandedName ==
    /\ MappingIsFromBlocks(ExpandedName)
    /\ e_pc = "returned"
          => \A i \in 1..Len(e_psets) :
                e_psets[i].FILE = Rendered(e_conf, OwnParams(e_conf, e_psets[i]))

\* a mapping returned for two blocks and a template with a leading ~, with
\* fewer entries than tuples
C14_Witness ==
    /\ e_pc = "returned"
    /\ Len(e_conf.pspaces) = 2
    /\ e_conf.DATAFILE[1] = "~"
    /\ Len(e_psets) >= 3
    /\ Len(e_psets) < SumOfProducts(e_conf, 1)

\* the accuracies of the blocks that have a tuple of the key
CollidingAccs(conf, key) ==
    LET Of(tuples) ==
            {conf.pspaces[tuples[k].block].acc :
                k \in {j \in 1..Len(tuples) :
                          ExpandedName(conf, ParamsOf(conf, tuples[j].tuple)) = key}}
    IN  Of(TuplesFrom(conf, 1))

\* C15: when several tuples of the blocks have the same key, the entry of
\* the returned mapping carries under <= the smallest and under >= the
\* largest of their accuracies, in whatever order the blocks are declared.
C15_SmallestOrLargestAccuracySurvives ==
    e_pc = "returned"
        => \A i \in 1..Len(e_psets) :
              \A acc \in CollidingAccs(e_conf, e_psets[i].key) :
                  /\ e_conf.CMD_ACC_OP = "<=" => e_psets[i].pset[nACC] <= acc
                  /\ e_conf.CMD_ACC_OP = ">=" => e_psets[i].pset[nACC] >= acc

\* under <= a block of accuracy 0.1 came before a block of accuracy 0.001
\* with the same key, and the entry carries 0.001
C15_Witness ==
    /\ e_pc = "returned"
    /\ e_conf.CMD_ACC_OP = "<="
    /\ Len(e_conf.pspaces) = 2
    /\ e_conf.pspaces[1].acc = 100
    /\ e_conf.pspaces[2].acc = 1
    /\ "replaced" \in e_seen
    /\ \E i \in 1..Len(e_psets) :
          /\ CollidingAccs(e_conf, e_psets[i].key) = {1, 100}
          /\ e_psets[i].pset[nACC] = 1

\* ------------------------------------------------------------------------
\* Claims about get_qdata, info's state tally and submit's MAXRUN
\* ------------------------------------------------------------------------

\* get_qdata has been called on q_dump
Called == q_pc \notin {"idle", "start"}

\* get_qdata returned a mapping
Parsed == q_pc \in {"parsed", "counted"}

IsBlank(line) == Strip(line) = <<>>

IsMarker(line) == StartsWith(Strip(line), <<"J", "o", "b", " ", "I", "d", ":">>)

\* the indices of the marker lines of the dump
Markers(lines) == {i \in 1..Len(lines) : IsMarker(lines[i])}

\* a non-blank line that is not a marker comes before the first marker
AttributeBeforeMarker(lines) ==
    \E i \in 1..Len(lines) :
        /\ ~IsBlank(lines[i])
        /\ ~IsMarker(lines[i])
        /\ \A j \in 1..(i - 1) : ~IsMarker(lines[j])

\* C16: whenever a non-blank line that is not a `Job Id:` marker comes before
\* the first marker of the dump, get_qdata ends in an exception and returns
\* no mapping: the TypeError of line 1706 for the bytes that check_output
\* returns, the ValueError of line 1716 for text.
C16_AttributeBeforeMarkerIsHardError ==
    Called /\ AttributeBeforeMarker(q_dump)
        => /\ q_pc = (IF q_kind = "bytes" THEN "TypeError" ELSE "ValueError")
           /\ q_qdata = <<>>

\* a dump of bytes whose first line is an attribute line has been read
C16_Witness ==
    /\ q_kind = "bytes"
    /\ Len(q_dump) = 3
    /\ q_dump[1] = <<" ", " ", " ", " ", "J", "o", "b", "_", "N", "a", "m", "e", " ", "=", " ", "d", "1", ".", "h", "5">>
    /\ IsMarker(q_dump[2])
    /\ q_pc = "TypeError"
    /\ q_qdata = <<>>

\* the word before and the text after the first `=` of an attribute line
AttrKey(line) == Strip(Split1(Strip(line), "=")[1])

AttrValue(line) == Strip(Split1(Strip(line), "=")[2])

IsKnown(line) == \E i \in 1..Len(job_keys) : job_keys[i].key = AttrKey(line)

TypeOf(line) == job_keys[CHOOSE i \in 1..Len(job_keys) : job_keys[i].key = AttrKey(line)].type

\* a line `key = value` whose value the table's type accepts
IsAttribute(line) ==
    /\ ~IsBlank(line)
    /\ ~IsMarker(line)
    /\ Count(line, "=") >= 1
    /\ IsKnown(line) /\ TypeOf(line) = "int" => AttrValue(line) # <<>> /\ AllDigits(AttrValue(line))

\* a dump as qstat writes it: records that begin with a marker, every
\* marker with an identifier of its own, every other line an attribute line
Regular(lines) ==
    /\ ~AttributeBeforeMarker(lines)
    /\ \A i \in 1..Len(lines) : IsBlank(lines[i]) \/ IsMarker(lines[i]) \/ IsAttribute(lines[i])
    /\ \A i, j \in Markers(lines) : i # j => lines[i] # lines[j]

\* the identifier of the record that line i belongs to
RecordOf(lines, i) ==
    LET Last(m) == SplitAll(lines[m])[Len(SplitAll(lines[m]))]
    IN  Last(CHOOSE m \in Markers(lines) : m < i /\ \A n \in Markers(lines) : n < i => n <= m)

UnknownLines(lines) == {i \in 1..Len(lines) : IsAttribute(lines[i]) /\ ~IsKnown(lines[i])}

\* the record of line i has an attribute whose value is the line's text
\* after the `=`, whitespace around key and value aside
KeptRaw(qdata, lines, i) ==
    /\ HasKey(qdata, RecordOf(lines, i))
    /\ \E e \in {Lookup(qdata, RecordOf(lines, i)).val[n] : n \in 1..Len(Lookup(qdata, RecordOf(lines, i)).val)} :
          Strip(e.key) = AttrKey(lines[i]) /\ Strip(e.val) = AttrValue(lines[i])

UnknownKeyKept ==
    /\ Parsed
    /\ Len(q_qdata) = Cardinality(Markers(q_dump))
    /\ \A i \in UnknownLines(q_dump) : KeptRaw(q_qdata, q_dump, i)

\* C17: a regular dump with an attribute line whose key is not in the table
\* is parsed: get_qdata returns a mapping with one record for each job
\* identifier, and the record of the unknown line holds its value as text.
C17_UnknownKeyNeverFailsParse ==
    Called /\ Regular(q_dump) /\ UnknownLines(q_dump) # {} => UnknownKeyKept

\* what lines 1724-1726 do once the output is text
UnknownKeyKeptWhenText ==
    Called /\ Regular(q_dump) /\ UnknownLines(q_dump) # {} /\ q_kind = "str" => UnknownKeyKept

\* the text of the value that an attribute line stores
Stored(line) ==
    IF ~IsKnown(line) \/ TypeOf(line) = "str" THEN AttrValue(line)
    ELSE IF TypeOf(line) = "int" THEN NatStr(DigitsVal(AttrValue(line)))
    ELSE IF AttrValue(line) = <<>> THEN <<"F", "a", "l", "s", "e">> ELSE <<"T", "r", "u", "e">>

\* the mapping after differs from the mapping before in the attribute of
\* `line` on the record id, and in nothing else
SetsOneAttribute(before, after, id, line) ==
    LET Same(a, b, key) ==
            /\ HasKey(a, key) <=> HasKey(b, key)
            /\ HasKey(a, key) => Lookup(a, key).val = Lookup(b, key).val
        KeysOf(d) == {d[n].key : n \in 1..Len(d)}
        OneMore(a, b) ==
            /\ HasKey(b, AttrKey(line))
            /\ Lookup(b, AttrKey(line)).val = Stored(line)
            /\ \A key \in (KeysOf(a) \cup KeysOf(b)) \ {AttrKey(line)} : Same(a, b, key)
    IN  /\ [n \in 1..Len(before) |-> before[n].key] = [n \in 1..Len(after) |-> after[n].key]
        /\ \A n \in 1..Len(before) : before[n].key # id => before[n].val = after[n].val
        /\ HasKey(before, id)
        /\ OneMore(Lookup(before, id).val, Lookup(after, id).val)

\* the dump without its last line
Front(lines) == SubSeq(lines, 1, Len(lines) - 1)

EndsInAttribute(lines) == lines # <<>> /\ Regular(lines) /\ IsAttribute(lines[Len(lines)])

\* C18: the last attribute line of a regular dump sets one attribute on the
\* record opened last, under its key without surrounding whitespace and with
\* the stripped (for a known key: converted) text after the first `=`, and
\* changes nothing else of what the lines before it gave.
C18_AttributeLineSetsOneAttribute ==
    Called /\ EndsInAttribute(q_dump)
        => /\ Parsed
           /\ SetsOneAttribute(get_qdata(q_kind, Front(q_dump)).qdata, q_qdata,
                               RecordOf(q_dump, Len(q_dump)), q_dump[Len(q_dump)])

\* what lines 1718-1722 do for a key of the table once the output is text
KnownKeySetsOneAttributeWhenText ==
    Called /\ EndsInAttribute(q_dump) /\ IsKnown(q_dump[Len(q_dump)]) /\ q_kind = "str"
        => /\ Parsed
           /\ SetsOneAttribute(get_qdata(q_kind, Front(q_dump)).qdata, q_qdata,
                               RecordOf(q_dump, Len(q_dump)), q_dump[Len(q_dump)])

\* the dumps of whole job records
InfoDumps == JobDumps({ <<"d", "1", ".", "h", "5">>, <<"d", "2", ".", "h", "5">>, <<"x", "9">> }, { <<"u", "@", "h">>, <<"v", "@", "h">> }, { <<"R">>, <<"Q">>, <<"X">>, <<>> })

\* the state codes of the tally
Codes == {"R", "Q", "C", "E", "H", "T", "W", "S"}

\* the name, the owner's user and the state of job n of a dump of whole records
JobOf(lines, n) ==
    LET After(line, k) == SubSeq(line, k + 1, Len(line))
        Before(text, i) == IF i = 0 THEN text ELSE SubSeq(text, 1, i - 1)
        UserOf(owner) == Before(owner, Find(owner, "@"))
    IN  [name |-> After(lines[4 * n - 2], 15),
         user |-> UserOf(After(lines[4 * n - 1], 16)),
         state |-> After(lines[4 * n], 16)]

\* the jobs of the user whose name is one of the datafiles, counted by hand
HandCount(lines) ==
    LET Mine == {n \in 1..(Len(lines) \div 4) :
                    JobOf(lines, n).user = s_in.user /\ InSeq(JobOf(lines, n).name, s_in.datafiles)}
    IN  [s |-> Cardinality(Mine),
         count |-> [c \in Codes |-> Cardinality({n \in Mine : JobOf(lines, n).state = <<c>>})]]

\* C19: for a queue with jobs, info computes the state tally, and the tally
\* has for each of the eight codes the number of the user's jobs of the
\* configuration in that state, other codes and jobs without a state being
\* counted nowhere, and column s has the number of those jobs.
C19_TallyMatchesHandCount ==
    Called /\ q_dump \in InfoDumps /\ q_dump # <<>> /\ s_pc = "idle"
        => /\ Parsed
           /\ q_pc = "counted" => q_count = HandCount(q_dump)

\* what lines 643-687 do once get_qdata has returned a mapping
TallyRightOnceParsed ==
    q_pc = "counted" /\ q_dump \in InfoDumps => q_count = HandCount(q_dump)

\* the number of keys that have a job in the dump
Running(lines) ==
    Cardinality({k \in 1..Len(s_in.datafiles) :
        \E n \in 1..(Len(lines) \div 4) : JobOf(lines, n).name = s_in.datafiles[k]})

\* max(0, M - r)
Room == IF s_in.maxrun[1] > Running(q_dump) THEN s_in.maxrun[1] - Running(q_dump) ELSE 0

\* C20: with MAXRUN = M and r keys that have a job in the queue snapshot,
\* submit hands at most max(0, M - r) jobs to qsub, whatever the options.
C20_SubmitsAtMostCapMinusRunning ==
    s_pc # "idle" /\ s_in.maxrun # None => Len(s_jobs) <= Room

\* what line 267 does without --quiet when MAXRUN - running is not zero
CapKeptWhenNotQuiet ==
    s_pc # "idle" /\ s_in.maxrun # None /\ ~s_in.quiet /\ s_in.maxrun[1] # Running(q_dump)
        => Len(s_jobs) <= Room

\* ------------------------------------------------------------------------
\* Claims about retry, the accuracy decisions and the commands
\* ------------------------------------------------------------------------

\* key k of the configuration is the Job_Name of a job of the snapshot
InSnapshot(k) ==
    \E n \in 1..(Len(q_dump) \div 4) : JobOf(q_dump, n).name = s_in.datafiles[k]

\* no job is submitted for a key of the snapshot, and none twice
NoneFromSnapshot ==
    /\ \A j \in 1..Len(s_jobs) : \A k \in 1..Len(s_in.datafiles) :
           s_jobs[j] = s_in.datafiles[k] => ~InSnapshot(k)
    /\ \A i, j \in 1..Len(s_jobs) : i # j => s_jobs[i] # s_jobs[j]

\* with --force the loop goes on past a key of the snapshot; without it (and
\* without MAXRUN) a first key of the snapshot ends the run with sys.exit
\* and nothing submitted
SkipsOrStops ==
    /\ s_in.force /\ s_in.ignoreacc => s_pc \in {"loop", "returned"}
    /\ ~s_in.force /\ s_in.maxrun = None /\ InSnapshot(1) /\ s_pc # "loop"
           => s_pc = "SystemExit" /\ s_jobs = <<>>

\* C21: submit hands no key to qsub that is the Job_Name of a job of the
\* queue snapshot, and no key twice; with --force such a key is skipped and
\* the loop goes on, without --force the run ends with sys.exit before any
\* further submission.
C21_KeyOfSnapshotNeverSubmitted ==
    s_pc \notin {"idle", "start"} => NoneFromSnapshot /\ SkipsOrStops

\* what lines 280-294 do once get_qdata has returned a mapping
KeyOfSnapshotSkippedWhenText ==
    s_pc \notin {"idle", "start"} /\ q_kind = "str" => NoneFromSnapshot /\ SkipsOrStops

\* the safety half of C21, which the exception of get_qdata leaves intact
NoneFromSnapshotEver == s_pc \notin {"idle", "start"} => NoneFromSnapshot

\* the calls of func made so far all raised, but for the last one of a
\* retry that has returned
FailedBefore(k) == \A j \in 1..(k - 1) : r_in.outcomes[j] = "raise"

\* C22: retry(func, retries=n) with n >= 0 makes at most n + 1 calls; when
\* it returns, it returns the result of the first call that did not raise
\* and that call was the last one; when it raises, all n + 1 calls raised and
\* the exception is the one of call n + 1; it never raises by itself; and it
\* has slept once between two calls (as often as calls were made while in
\* the loop, once less at the end).
C22_RetryCallsAtMostNPlusOne ==
    r_st # <<>> /\ r_in.retries # None /\ r_in.retries[1] >= 0
        => /\ r_st.calls <= r_in.retries[1] + 1
           /\ r_st.pc \in {"loop", "returned", "raised"}
           /\ r_st.pc = "loop" => r_st.sleeps = r_st.calls /\ FailedBefore(r_st.calls + 1)
           /\ r_st.pc = "returned"
                  => /\ r_st.res = Some(r_st.calls)
                     /\ r_in.outcomes[r_st.calls] = "return"
                     /\ FailedBefore(r_st.calls)
                     /\ r_st.sleeps = r_st.calls - 1
           /\ r_st.pc = "raised"
                  => /\ r_st.calls = r_in.retries[1] + 1
                     /\ r_st.res = Some(r_st.calls)
                     /\ FailedBefore(r_st.calls + 1)
                     /\ r_st.sleeps = r_st.calls - 1

\* retries=2 and a func that raises twice and then returns: three calls,
\* two sleeps, the result of the third call
C22_Witness ==
    /\ r_st # <<>>
    /\ r_in.retries = Some(2)
    /\ r_in.outcomes[1] = "raise" /\ r_in.outcomes[2] = "raise" /\ r_in.outcomes[3] = "return"
    /\ r_st.pc = "returned"
    /\ r_st.calls = 3
    /\ r_st.sleeps = 2
    /\ r_st.res = Some(3)

\* C23: retry with retries=None never raises by itself: it is in its loop,
\* or it has returned the result of the first call that did not raise.
C23_NoneRetriesForever ==
    r_st # <<>> /\ r_in.retries = None
        => /\ r_st.pc \in {"loop", "returned"}
           /\ r_st.pc = "returned"
                  => /\ r_st.res = Some(r_st.calls)
                     /\ r_in.outcomes[r_st.calls] = "return"
                     /\ FailedBefore(r_st.calls)

\* the accuracy that the output of CMD_ACC gives is known and compares true
\* against the target
Reached == s_in.out # <<>> /\ compare(PyFloat(s_in.out).v, s_in.target, s_in.op)

\* key k has come as far as the accuracy check: it has been handled, its
\* datafile exists and it has no job in the snapshot
Checked(k) == k < s_i /\ s_in.disk[k] = "ok" /\ ~InSnapshot(k)

\* C24: submit without --ignore-acc, once it has its queue snapshot, raises
\* no error from the accuracy check; a key whose accuracy is known and
\* compares true is skipped, and (MAXRUN aside) a key whose accuracy is
\* unknown or does not compare true is submitted.
C24_UnknownAccuracyIsSubmitted ==
    s_pc \notin {"idle", "start"} /\ q_pc = "parsed" /\ ~s_in.ignoreacc
        => /\ s_pc \in {"loop", "returned", "SystemExit"}
           /\ \A k \in 1..Len(s_in.datafiles) :
                  Checked(k) /\ Reached => ~InSeq(s_in.datafiles[k], s_jobs)
           /\ \A k \in 1..Len(s_in.datafiles) :
                  Checked(k) /\ ~Reached /\ s_in.maxrun = None => InSeq(s_in.datafiles[k], s_jobs)

\* "finished" when CMD_ACC printed a number that compares true against the
\* target under the operator of the configuration, "unfinished" otherwise
ByOperator ==
    IF Strip(a_in.out) # <<>> /\ PyFloat(a_in.out).ok
           /\ compare(PyFloat(a_in.out).v, a_in.target, a_in.op)
    THEN "finished" ELSE "unfinished"

\* C25: submit's skip, info's count and list's filters decide the same about
\* a parameter set with a measured accuracy, and decide as
\* compare(accuracy, target, CMD_ACC_OP) does.
C25_AllDecideByOperator ==
    a_res # <<>> /\ a_in.status = "ok"
        => a_res.submit = ByOperator /\ a_res.info = ByOperator /\ a_res.list = ByOperator

\* info and list compare with <=: they decide by the operator when it is <=
\* (list but for an accuracy of 0, which it takes for none)
InfoAndListDecideByLessEqual ==
    a_res # <<>> /\ a_in.status = "ok" /\ a_in.op = "<="
        => /\ a_res.info = ByOperator
           /\ a_in.out # << "0" >> => a_res.list = ByOperator

\* job n of the dump has the name of a key of the configuration and, under
\* --running alone or --queued alone, the state asked for
Wanted(n) ==
    /\ InSeq(JobOf(q_dump, n).name, s_in.datafiles)
    /\ s_in.running /\ ~s_in.queued => JobOf(q_dump, n).state = <<"R">>
    /\ s_in.queued /\ ~s_in.running => JobOf(q_dump, n).state = <<"Q">>

\* every identifier handed to qdel is the one of a wanted job, and with
\* --test none is handed over
OnlyWantedDeleted ==
    /\ \A j \in 1..Len(s_jobs) :
           \E n \in 1..(Len(q_dump) \div 4) : s_jobs[j] = NatStr(n) \o <<".", "h">> /\ Wanted(n)
    /\ s_in.test => s_jobs = <<>>

\* C26: delete reads the queue and goes through its keys without an
\* exception, and hands to qdel only jobs whose name is a key of the
\* configuration and whose state is R under --running alone and Q under
\* --queued alone; with --test it hands none.
C26_DeletesOnlyRequestedState ==
    s_pc \notin {"idle", "start"} => s_pc \in {"loop", "returned"} /\ OnlyWantedDeleted

\* the states that lines 453-459 drop are R (without --running) and Q
\* (without --queued) and no other: once the queue is read as text, only
\* jobs of the configuration that are not in the state left out are deleted
OnlyOtherStateKeptBack ==
    s_pc \notin {"idle", "start"}
        => \A j \in 1..Len(s_jobs) : \E n \in 1..(Len(q_dump) \div 4) :
               /\ s_jobs[j] = NatStr(n) \o <<".", "h">>
               /\ InSeq(JobOf(q_dump, n).name, s_in.datafiles)
               /\ s_in.running /\ ~s_in.queued => JobOf(q_dump, n).state # <<"Q">>
               /\ s_in.queued /\ ~s_in.running => JobOf(q_dump, n).state # <<"R">>
               /\ ~s_in.test

\* C27: create with --test makes no change: it executes no CMD_FILE command
\* and creates no directory, whatever the other options and the state of
\* the file system.
C27_TestModeChangesNothing ==
    s_pc # "idle" /\ s_in.test => s_jobs = <<>>

\* with --test and neither --quiet nor --bar nothing is changed
TestModeChangesNothingUnlessQuiet ==
    s_pc # "idle" /\ s_in.test /\ ~s_in.quiet /\ ~s_in.bar => s_jobs = <<>>

\* with --test no directory is created
TestModeCreatesNoDirectory ==
    s_pc # "idle" /\ s_in.test => \A j \in 1..Len(s_jobs) : s_jobs[j].op # "makedirs"

\* what C17's exception leaves of delete: nothing is handed to qdel
NothingDeletedFromBytes == q_kind = "bytes" => s_jobs = <<>>

\* C28: a PARAM line with a range that has no stop, start: or start::step,
\* is rejected with a syntax error that names the line, and no list of
\* values is made from it.
C28_RangeWithoutStopRejected ==
    [][ReadsRangeOfKind("nostop2") \/ ReadsRangeOfKind("nostop3")
           => FailsAtLine({"syntax error"})]_vars

\* what the range loop makes of a range without stop: numpy.arange takes
\* the start for the stop and 0 for the start, so the values are 0, step,
\* 2 step, ... that are less than start
RangeWithoutStopCountsFromZero ==
    [][\A rf \in RangeFiles :
          (ReadsLine /\ p_line' = rf.line /\ Len(rf.ranges) = 1
              /\ rf.ranges[1].kind \in {"nostop2", "nostop3"})
              => /\ p_pc' = "loop"
                 /\ p_conf'.pspaces =
                        <<[values |-> <<[key |-> nA,
                                         list |-> HalfOpen(0, rf.ranges[1].start, rf.ranges[1].step)]>>,
                           acc |-> None]>>]_vars

\* C29: filter_psets called with the same pairs in another order returns the
\* same mapping, or both calls fail.
C29_FilterIgnoresPairOrder ==
    f_pc = "swapped"
        => \/ f_res1.status = "returned" /\ f_res2 = f_res1
           \/ f_res1.status # "returned" /\ f_res2.status # "returned"

\* when neither call ends in the TypeError of the interval test, the order
\* of the pairs makes no difference
FilterIgnoresPairOrderUnlessTypeError ==
    f_pc = "swapped" /\ "TypeError" \notin {f_res1.status, f_res2.status}
        => \/ f_res1.status = "returned" /\ f_res2 = f_res1
           \/ f_res1.status # "returned" /\ f_res2.status # "returned"

\* C30: when create, submit, delete, info or list has ended, by a return
\* (after a keyboard interrupt too), by sys.exit or by an exception, the
\* working directory is the one the command was called in.
C30_WorkingDirectoryRestored ==
    w_st # <<>> /\ w_st.pc \in {"returned", "SystemExit", "exception"} => w_st.cwd = w_in.home

\* submit has been through the WORKDIR of one configuration, has left the
\* loop of the second by sys.exit, and is back where it was called
C30_Witness ==
    /\ w_st # <<>>
    /\ w_in.cmd = "submit"
    /\ w_in.confs = <<"ok", "exit">>
    /\ w_st.pc = "SystemExit"
    /\ w_st.k = 2
    /\ w_st.cwd = w_in.home
=============================================================================
